---- MODULE Spec2Model ----
(***************************************************************************)
(* A model of the native crypto bridge NativeCrypto.c: the discovery of    *)
(* the OpenSSL shared library, the version probe, the binding of the       *)
(* function pointers, the legacy lock array, and the JNI entry points      *)
(* whose control flow decides a return sentinel.                           *)
(*                                                                         *)
(* C strings are sequences of one-character strings; a pointer is either   *)
(* NULL or the thing it points at; an opaque jlong handle is 0 or the      *)
(* identity of the native object.                                          *)
(***************************************************************************)
EXTENDS Integers, Sequences, FiniteSets, TLC

NULL == "NULL"

RECURSIVE Pow2(_)
Pow2(n) == IF n = 0 THEN 1 ELSE 2 * Pow2(n - 1)

\* The C operator | on non-negative values.
RECURSIVE BitOr(_, _)
BitOr(a, b) ==
    IF a = 0 THEN b
    ELSE IF b = 0 THEN a
    ELSE (IF a % 2 = 1 \/ b % 2 = 1 THEN 1 ELSE 0) + 2 * BitOr(a \div 2, b \div 2)

\* The C operator << on non-negative values.
Shl(x, n) == x * Pow2(n)

(***************************************************************************)
(* Version codes (NativeCrypto.c:55-64).                                   *)
(***************************************************************************)
OPENSSL_VERSION_CODE(major, minor, fix, patch) ==
    BitOr(BitOr(BitOr(Shl(major, 28), Shl(minor, 20)), Shl(fix, 12)), patch)

OPENSSL_VERSION_1_0_0 == OPENSSL_VERSION_CODE(1, 0, 0, 0)
OPENSSL_VERSION_1_1_0 == OPENSSL_VERSION_CODE(1, 1, 0, 0)
OPENSSL_VERSION_1_1_1 == OPENSSL_VERSION_CODE(1, 1, 1, 0)
OPENSSL_VERSION_2_0_0 == OPENSSL_VERSION_CODE(2, 0, 0, 0)
OPENSSL_VERSION_3_0_0 == OPENSSL_VERSION_CODE(3, 0, 0, 0)
OPENSSL_VERSION_4_0_0 == OPENSSL_VERSION_CODE(4, 0, 0, 0)

(***************************************************************************)
(* sscanf(astring, "OpenSSL %ld.%ld.%ld%c", ...) and the characters it     *)
(* classifies.                                                             *)
(***************************************************************************)
DigitChars == <<"0", "1", "2", "3", "4", "5", "6", "7", "8", "9">>
LowerChars == <<"a", "b", "c", "d", "e", "f", "g", "h", "i", "j", "k", "l", "m",
                "n", "o", "p", "q", "r", "s", "t", "u", "v", "w", "x", "y", "z">>
UpperChars == <<"A", "B", "C", "D", "E", "F", "G", "H", "I", "J", "K", "L", "M",
                "N", "O", "P", "Q", "R", "S", "T", "U", "V", "W", "X", "Y", "Z">>

IndexIn(seq, c) == CHOOSE i \in 1..Len(seq) : seq[i] = c
isdigit(c) == \E i \in 1..Len(DigitChars) : DigitChars[i] = c
DigitVal(c) == IndexIn(DigitChars, c) - 1
isspace(c) == c \in {" ", "\t", "\n"}
islower(c) == \E i \in 1..Len(LowerChars) : LowerChars[i] = c
isupper(c) == \E i \in 1..Len(UpperChars) : UpperChars[i] = c
isalpha(c) == islower(c) \/ isupper(c)
tolower(c) == IF isupper(c) THEN LowerChars[IndexIn(UpperChars, c)] ELSE c
\* tolower(c) - 'a' for a letter c
LetterOffset(c) == IndexIn(LowerChars, tolower(c)) - 1

\* The first position at or after i that holds no white space.
RECURSIVE SkipSpace(_, _)
SkipSpace(s, i) ==
    IF i <= Len(s) /\ isspace(s[i]) THEN SkipSpace(s, i + 1) ELSE i

\* The digits from position i on: <<value, position after the last digit>>.
RECURSIVE ScanDigits(_, _, _)
ScanDigits(s, i, acc) ==
    IF i <= Len(s) /\ isdigit(s[i])
    THEN ScanDigits(s, i + 1, 10 * acc + DigitVal(s[i]))
    ELSE <<acc, i>>

\* The conversion %ld at position i: white space is skipped, a sign is
\* accepted, and at least one digit must follow.
\* st is "ok", "eof" (input ended before a digit) or "fail" (no digit there).
ScanLongValue(d, neg) ==
    [st |-> "ok", val |-> IF neg THEN 0 - d[1] ELSE d[1], next |-> d[2]]

ScanLongAt(s, k, neg) ==
    IF k > Len(s) THEN [st |-> "eof", val |-> 0, next |-> k]
    ELSE IF ~isdigit(s[k]) THEN [st |-> "fail", val |-> 0, next |-> k]
    ELSE ScanLongValue(ScanDigits(s, k, 0), neg)

ScanSign(s, j) ==
    ScanLongAt(s, IF j <= Len(s) /\ s[j] \in {"+", "-"} THEN j + 1 ELSE j,
               j <= Len(s) /\ s[j] = "-")

ScanLong(s, i) == ScanSign(s, SkipSpace(s, i))

\* The ordinary characters of the format up to its first directive.
BannerChars == <<"O", "p", "e", "n", "S", "S", "L">>

\* Position after the literal prefix lit matched at the start of s, or 0 on
\* a mismatch, or -1 when s ends inside the prefix.
RECURSIVE MatchLiteral(_, _, _)
MatchLiteral(s, lit, i) ==
    IF i > Len(lit) THEN i
    ELSE IF i > Len(s) THEN -1
    ELSE IF s[i] # lit[i] THEN 0
    ELSE MatchLiteral(s, lit, i + 1)

EOF == 0 - 1

\* The result of the sscanf call: n is its return value (the number of
\* conversions assigned, or EOF), the other fields are the variables it wrote
\* (left at their initial 0 when not assigned).  a, b and c are the three
\* %ld conversions.
Scanned(n, major, minor, fix, patch_char) ==
    [n |-> n, major |-> major, minor |-> minor, fix |-> fix,
     patch_char |-> patch_char]

ScanPatch(s, a, b, c) ==
    IF c.st # "ok" THEN Scanned(2, a.val, b.val, 0, "")
    ELSE IF c.next > Len(s) THEN Scanned(3, a.val, b.val, c.val, "")
    ELSE Scanned(4, a.val, b.val, c.val, s[c.next])

ScanFix(s, a, b) ==
    IF b.st # "ok" THEN Scanned(1, a.val, 0, 0, "")
    ELSE IF b.next > Len(s) \/ s[b.next] # "." THEN Scanned(2, a.val, b.val, 0, "")
    ELSE ScanPatch(s, a, b, ScanLong(s, b.next + 1))

ScanMinor(s, a) ==
    IF a.st = "eof" THEN Scanned(EOF, 0, 0, 0, "")
    ELSE IF a.st = "fail" THEN Scanned(0, 0, 0, 0, "")
    ELSE IF a.next > Len(s) \/ s[a.next] # "." THEN Scanned(1, a.val, 0, 0, "")
    ELSE ScanFix(s, a, ScanLong(s, a.next + 1))

ScanMajor(s, p0) ==
    IF p0 = -1 THEN Scanned(EOF, 0, 0, 0, "")
    ELSE IF p0 = 0 THEN Scanned(0, 0, 0, 0, "")
    ELSE ScanMinor(s, ScanLong(s, p0))

sscanf_version(s) == ScanMajor(s, MatchLiteral(s, BannerChars, 1))

\* tolower(patch_char) - 'a' with no + 1.
PatchOf_fromZero(patch_char) ==
    IF isalpha(patch_char) THEN LetterOffset(patch_char) ELSE 0

\* patch, as lines 383-385 leave it
PatchOf(patch_char) ==
    IF isalpha(patch_char) THEN LetterOffset(patch_char) + 1 ELSE 0

\* Lines 380-386 on the result r of sscanf.
VersionOfScan(r) ==
    IF r.n < 3 THEN -1
    ELSE OPENSSL_VERSION_CODE(r.major, r.minor, r.fix, PatchOf(r.patch_char))

extractVersionToJlong(astring) == VersionOfScan(sscanf_version(astring))

(***************************************************************************)
(* The platform the file is compiled for (_AIX, __linux__, __APPLE__,      *)
(* _WIN32) and the candidate library names (NativeCrypto.c:631-669).       *)
(***************************************************************************)
Platforms == {"aix", "linux", "macos", "windows"}

libNames(plat) ==
    CASE plat = "aix" ->
           <<"libcrypto.a(libcrypto64.so)", "libcrypto64.so",
             "libcrypto.a(libcrypto.so)", "libcrypto.so",
             "libcrypto.a(libcrypto64.so.3)", "libcrypto64.so.3",
             "libcrypto.a(libcrypto.so.3)", "libcrypto.so.3",
             "libcrypto.a(libcrypto64.so.1.1)", "libcrypto.so.1.1",
             "libcrypto.a(libcrypto.so.1.0.0)", "libcrypto.so.1.0.0">>
      [] plat = "macos" ->
           <<"libcrypto.3.dylib", "libcrypto.1.1.dylib", "libcrypto.1.0.0.dylib">>
      [] plat = "windows" ->
           <<"libcrypto-3-x64.dll", "libcrypto-1_1-x64.dll", "libeay32.dll">>
      [] OTHER ->
           <<"libcrypto.so", "libcrypto.so.3", "libcrypto.so.1.1",
             "libcrypto.so.1.0.0", "libcrypto.so.10">>

numOfLibs(plat) == Len(libNames(plat))

num_of_generic(plat) ==
    CASE plat = "aix" -> 4
      [] plat = "linux" -> 1
      [] OTHER -> 0

pathSuffix(plat) == IF plat = "windows" THEN "\\bin\\" ELSE "/lib/"

\* A file name is the sequence of the strings strcpy and strcat put together:
\* <<libName>> for the operating system's search path,
\* <<chomepath, pathSuffix, libName>> for the library bundled with the JDK.
SystemPath(name) == <<name>>
BundledPath(plat, chomepath, name) == <<chomepath, pathSuffix(plat), name>>

(***************************************************************************)
(* The function pointers of NativeCrypto.c and the symbols loadCrypto      *)
(* looks up for them.                                                      *)
(***************************************************************************)
\* Pointers bound to one symbol whatever the version (lines 869-871,
\* 884-889, 901-922, 934, 945-977, 1058): <<pointer, symbol>>.
PlainBindings == {
    <<"OSSL_error_string_n", "ERR_error_string_n">>,
    <<"OSSL_error_string", "ERR_error_string">>,
    <<"OSSL_get_error", "ERR_get_error">>,
    <<"OSSL_md5", "EVP_md5">>,
    <<"OSSL_sha1", "EVP_sha1">>,
    <<"OSSL_sha256", "EVP_sha256">>,
    <<"OSSL_sha224", "EVP_sha224">>,
    <<"OSSL_sha384", "EVP_sha384">>,
    <<"OSSL_sha512", "EVP_sha512">>,
    <<"OSSL_DigestInit_ex", "EVP_DigestInit_ex">>,
    <<"OSSL_MD_CTX_copy_ex", "EVP_MD_CTX_copy_ex">>,
    <<"OSSL_DigestUpdate", "EVP_DigestUpdate">>,
    <<"OSSL_DigestFinal_ex", "EVP_DigestFinal_ex">>,
    <<"OSSL_CIPHER_CTX_new", "EVP_CIPHER_CTX_new">>,
    <<"OSSL_CIPHER_CTX_free", "EVP_CIPHER_CTX_free">>,
    <<"OSSL_aes_128_cbc", "EVP_aes_128_cbc">>,
    <<"OSSL_aes_192_cbc", "EVP_aes_192_cbc">>,
    <<"OSSL_aes_256_cbc", "EVP_aes_256_cbc">>,
    <<"OSSL_CipherInit_ex", "EVP_CipherInit_ex">>,
    <<"OSSL_CIPHER_CTX_set_padding", "EVP_CIPHER_CTX_set_padding">>,
    <<"OSSL_CipherUpdate", "EVP_CipherUpdate">>,
    <<"OSSL_CipherFinal_ex", "EVP_CipherFinal_ex">>,
    <<"OSSL_aes_128_gcm", "EVP_aes_128_gcm">>,
    <<"OSSL_aes_192_gcm", "EVP_aes_192_gcm">>,
    <<"OSSL_aes_256_gcm", "EVP_aes_256_gcm">>,
    <<"OSSL_CIPHER_CTX_ctrl", "EVP_CIPHER_CTX_ctrl">>,
    <<"OSSL_DecryptInit_ex", "EVP_DecryptInit_ex">>,
    <<"OSSL_DecryptUpdate", "EVP_DecryptUpdate">>,
    <<"OSSL_DecryptFinal", "EVP_DecryptFinal">>,
    <<"OSSL_RSA_new", "RSA_new">>,
    <<"OSSL_RSA_free", "RSA_free">>,
    <<"OSSL_RSA_public_decrypt", "RSA_public_decrypt">>,
    <<"OSSL_RSA_private_encrypt", "RSA_private_decrypt">>,
    <<"OSSL_BN_new", "BN_new">>,
    <<"OSSL_BN_bin2bn", "BN_bin2bn">>,
    <<"OSSL_BN_set_negative", "BN_set_negative">>,
    <<"OSSL_BN_free", "BN_free">>,
    <<"OSSL_BN_bn2bin", "BN_bn2bin">>,
    <<"OSSL_BN_num_bits", "BN_num_bits">>,
    <<"OSSL_EC_KEY_generate_key", "EC_KEY_generate_key">>,
    <<"OSSL_EC_KEY_free", "EC_KEY_free">>,
    <<"OSSL_ECDH_compute_key", "ECDH_compute_key">>,
    <<"OSSL_EC_KEY_get0_public_key", "EC_KEY_get0_public_key">>,
    <<"OSSL_EC_KEY_get0_private_key", "EC_KEY_get0_private_key">>,
    <<"OSSL_EC_KEY_new", "EC_KEY_new">>,
    <<"OSSL_EC_KEY_set_public_key_affine_coordinates",
      "EC_KEY_set_public_key_affine_coordinates">>,
    <<"OSSL_EC_KEY_set_private_key", "EC_KEY_set_private_key">>,
    <<"OSSL_BN_CTX_new", "BN_CTX_new">>,
    <<"OSSL_EC_GROUP_new_curve_GFp", "EC_GROUP_new_curve_GFp">>,
    <<"OSSL_EC_GROUP_new_curve_GF2m", "EC_GROUP_new_curve_GF2m">>,
    <<"OSSL_EC_KEY_set_group", "EC_KEY_set_group">>,
    <<"OSSL_EC_POINT_new", "EC_POINT_new">>,
    <<"OSSL_EC_GROUP_set_generator", "EC_GROUP_set_generator">>,
    <<"OSSL_EC_KEY_get0_group", "EC_KEY_get0_group">>,
    <<"OSSL_EC_POINT_free", "EC_POINT_free">>,
    <<"OSSL_EC_GROUP_free", "EC_GROUP_free">>,
    <<"OSSL_BN_CTX_free", "BN_CTX_free">>,
    <<"OSSL_EC_KEY_set_public_key", "EC_KEY_set_public_key">>,
    <<"OSSL_EC_KEY_check_key", "EC_KEY_check_key">>,
    <<"OSSL_PKCS12_key_gen", "PKCS12_key_gen_uni">> }

\* The threading routines of OpenSSL 1.0.2, looked up below 1.1.0 only
\* (lines 874-881).
ThreadBindings == {
    <<"OSSL_CRYPTO_num_locks", "CRYPTO_num_locks">>,
    <<"OSSL_CRYPTO_THREADID_set_numeric", "CRYPTO_THREADID_set_numeric">>,
    <<"OSSL_OPENSSL_malloc", "CRYPTO_malloc">>,
    <<"OSSL_OPENSSL_free", "CRYPTO_free">>,
    <<"OSSL_CRYPTO_THREADID_set_callback", "CRYPTO_THREADID_set_callback">>,
    <<"OSSL_CRYPTO_set_locking_callback", "CRYPTO_set_locking_callback">> }

\* The digest context routines: <<pointer, symbol from 1.1.0 on, symbol
\* below 1.1.0>> (lines 891-899).
MDContextBindings == {
    <<"OSSL_MD_CTX_new", "EVP_MD_CTX_new", "EVP_MD_CTX_create">>,
    <<"OSSL_MD_CTX_reset", "EVP_MD_CTX_reset", "EVP_MD_CTX_cleanup">>,
    <<"OSSL_MD_CTX_free", "EVP_MD_CTX_free", "EVP_MD_CTX_destroy">> }

\* ChaCha20, looked up from 1.1.0 on and NULL below (lines 924-931).
ChaChaBindings == {
    <<"OSSL_chacha20", "EVP_chacha20">>,
    <<"OSSL_chacha20_poly1305", "EVP_chacha20_poly1305">> }

\* The RSA setters: <<pointer, symbol from 1.1.0 on, local function below
\* 1.1.0>> (lines 936-944).
RSASetterBindings == {
    <<"OSSL_RSA_set0_key", "RSA_set0_key", "OSSL102_RSA_set0_key">>,
    <<"OSSL_RSA_set0_factors", "RSA_set0_factors", "OSSL102_RSA_set0_factors">>,
    <<"OSSL_RSA_set0_crt_params", "RSA_set0_crt_params", "OSSL102_RSA_set0_crt_params">> }

\* XDH and ECDSA, looked up from 1.1.1 on and NULL below (lines 1010-1055).
XDHBindings == {
    <<"OSSL_EVP_PKEY_CTX_new", "EVP_PKEY_CTX_new">>,
    <<"OSSL_EVP_PKEY_CTX_new_id", "EVP_PKEY_CTX_new_id">>,
    <<"OSSL_EVP_PKEY_keygen_init", "EVP_PKEY_keygen_init">>,
    <<"OSSL_EVP_PKEY_keygen", "EVP_PKEY_keygen">>,
    <<"OSSL_EVP_PKEY_CTX_free", "EVP_PKEY_CTX_free">>,
    <<"OSSL_EVP_PKEY_get_raw_private_key", "EVP_PKEY_get_raw_private_key">>,
    <<"OSSL_EVP_PKEY_get_raw_public_key", "EVP_PKEY_get_raw_public_key">>,
    <<"OSSL_EVP_PKEY_new_raw_private_key", "EVP_PKEY_new_raw_private_key">>,
    <<"OSSL_EVP_PKEY_new_raw_public_key", "EVP_PKEY_new_raw_public_key">>,
    <<"OSSL_EVP_PKEY_derive_init", "EVP_PKEY_derive_init">>,
    <<"OSSL_EVP_PKEY_derive_set_peer", "EVP_PKEY_derive_set_peer">>,
    <<"OSSL_EVP_PKEY_derive", "EVP_PKEY_derive">>,
    <<"OSSL_EVP_PKEY_free", "EVP_PKEY_free">> }

ECDSABindings == {
    <<"OSSL_ECDSA_do_sign", "ECDSA_do_sign">>,
    <<"OSSL_ECDSA_do_verify", "ECDSA_do_verify">>,
    <<"OSSL_ECDSA_SIG_new", "ECDSA_SIG_new">>,
    <<"OSSL_ECDSA_SIG_free", "ECDSA_SIG_free">>,
    <<"OSSL_ECDSA_SIG_get0_r", "ECDSA_SIG_get0_r">>,
    <<"OSSL_ECDSA_SIG_get0_s", "ECDSA_SIG_get0_s">>,
    <<"OSSL_ECDSA_SIG_set0", "ECDSA_SIG_set0">> }

\* The four EC_POINT coordinate pointers, bound with fallbacks
\* (lines 978-979, 986-999).
AffinePointers == {
    "OSSL_EC_POINT_set_affine_coordinates_GFp",
    "OSSL_EC_POINT_set_affine_coordinates_GF2m",
    "OSSL_EC_POINT_get_affine_coordinates_GFp",
    "OSSL_EC_POINT_get_affine_coordinates_GF2m" }

AffineSymbols == {
    "EC_POINT_set_affine_coordinates", "EC_POINT_set_affine_coordinates_GFp",
    "EC_POINT_set_affine_coordinates_GF2m", "EC_POINT_get_affine_coordinates",
    "EC_POINT_get_affine_coordinates_GFp", "EC_POINT_get_affine_coordinates_GF2m" }

PointerNames ==
    {b[1] : b \in PlainBindings \cup ThreadBindings \cup MDContextBindings
                  \cup ChaChaBindings \cup RSASetterBindings \cup XDHBindings
                  \cup ECDSABindings}
    \cup AffinePointers

\* Every function symbol loadCrypto may look up.
FunctionSymbols ==
    {b[2] : b \in PlainBindings \cup ThreadBindings \cup MDContextBindings
                  \cup ChaChaBindings \cup RSASetterBindings \cup XDHBindings
                  \cup ECDSABindings}
    \cup {b[3] : b \in MDContextBindings}
    \cup AffineSymbols

SymbolOf(bindings, p) == (CHOOSE b \in bindings : b[1] = p)[2]
LegacyOf(bindings, p) == (CHOOSE b \in bindings : b[1] = p)[3]
Binds(bindings, p) == \E b \in bindings : b[1] = p

\* The branch of loadCrypto that assigns the pointer p.
GroupOf ==
    [p \in PointerNames |->
       CASE Binds(PlainBindings, p) -> "plain"
         [] Binds(ThreadBindings, p) -> "thread"
         [] Binds(MDContextBindings, p) -> "mdctx"
         [] Binds(ChaChaBindings, p) -> "chacha"
         [] Binds(RSASetterBindings, p) -> "rsaset"
         [] Binds(XDHBindings, p) -> "xdh"
         [] Binds(ECDSABindings, p) -> "ecdsa"
         [] OTHER -> "affine"]

\* The symbol looked up for p, and the one (or the local function) used in
\* its place below 1.1.0.
SymbolFor ==
    [p \in PointerNames \ AffinePointers |->
       SymbolOf(PlainBindings \cup ThreadBindings \cup MDContextBindings
                \cup ChaChaBindings \cup RSASetterBindings \cup XDHBindings
                \cup ECDSABindings, p)]

LegacyFor ==
    [p \in {b[1] : b \in MDContextBindings \cup RSASetterBindings} |->
       LegacyOf(MDContextBindings \cup RSASetterBindings, p)]

\* find_crypto_symbol on a library that resolves exactly the symbols in S.
Lookup(S, symname) == IF symname \in S THEN symname ELSE NULL

\* The ChaCha20 pointers looked up whatever the version.
BindChaCha_unconditional(ossl_ver, S, p) == Lookup(S, SymbolFor[p])

\* The ChaCha20 pointers (lines 924-931).
BindChaCha(ossl_ver, S, p) ==
    IF ossl_ver >= OPENSSL_VERSION_1_1_0
    THEN Lookup(S, SymbolFor[p])
    ELSE NULL

\* The XDH and ECDSA pointers looked up from 1.1.0 on.
BindXDH_from_1_1_0(ossl_ver, S, p) ==
    IF ossl_ver >= OPENSSL_VERSION_1_1_0
    THEN Lookup(S, SymbolFor[p])
    ELSE NULL

\* The XDH and ECDSA pointers (lines 1010-1055).
BindXDH(ossl_ver, S, p) ==
    IF ossl_ver >= OPENSSL_VERSION_1_1_1
    THEN Lookup(S, SymbolFor[p])
    ELSE NULL

\* The affine-coordinate pointers (lines 978-979, 986-999): the symbol
\* without suffix when the library has it, else the one for the field.
BindAffine(S, p) ==
    LET setGFp == Lookup(S, "EC_POINT_set_affine_coordinates")
        getGFp == Lookup(S, "EC_POINT_get_affine_coordinates")
    IN  CASE p = "OSSL_EC_POINT_set_affine_coordinates_GFp" ->
               IF setGFp = NULL
               THEN Lookup(S, "EC_POINT_set_affine_coordinates_GFp")
               ELSE setGFp
          [] p = "OSSL_EC_POINT_set_affine_coordinates_GF2m" ->
               IF setGFp = NULL
               THEN Lookup(S, "EC_POINT_set_affine_coordinates_GF2m")
               ELSE Lookup(S, "EC_POINT_set_affine_coordinates")
          [] p = "OSSL_EC_POINT_get_affine_coordinates_GFp" ->
               IF getGFp = NULL
               THEN Lookup(S, "EC_POINT_get_affine_coordinates_GFp")
               ELSE getGFp
          [] p = "OSSL_EC_POINT_get_affine_coordinates_GF2m" ->
               IF getGFp = NULL
               THEN Lookup(S, "EC_POINT_get_affine_coordinates_GF2m")
               ELSE getGFp

\* The pointer table after the lookups of loadCrypto (lines 868-1058): old is
\* the table before the call, S the symbols find_crypto_symbol resolves.
BindSymbols(old, ossl_ver, S) ==
    [p \in PointerNames |->
       CASE GroupOf[p] = "plain" -> Lookup(S, SymbolFor[p])
         [] GroupOf[p] = "thread" ->
              IF ossl_ver < OPENSSL_VERSION_1_1_0
              THEN Lookup(S, SymbolFor[p])
              ELSE old[p]
         [] GroupOf[p] = "mdctx" ->
              IF ossl_ver >= OPENSSL_VERSION_1_1_0
              THEN Lookup(S, SymbolFor[p])
              ELSE Lookup(S, LegacyFor[p])
         [] GroupOf[p] = "chacha" -> BindChaCha(ossl_ver, S, p)
         [] GroupOf[p] = "rsaset" ->
              IF ossl_ver >= OPENSSL_VERSION_1_1_0
              THEN Lookup(S, SymbolFor[p])
              ELSE LegacyFor[p]
         [] GroupOf[p] \in {"xdh", "ecdsa"} -> BindXDH(ossl_ver, S, p)
         [] GroupOf[p] = "affine" -> BindAffine(S, p)]

\* EC_set_public_key (lines 980-985) and OSSL_ECGF2M (lines 1000-1008).
Bind_EC_set_public_key(P) ==
    IF P["OSSL_EC_KEY_set_public_key_affine_coordinates"] = NULL
    THEN "setECPublicKey"
    ELSE "setECPublicCoordinates"

Bind_OSSL_ECGF2M(P) ==
    ~ (\/ P["OSSL_EC_GROUP_new_curve_GF2m"] = NULL
       \/ P["OSSL_EC_POINT_set_affine_coordinates_GF2m"] = NULL
       \/ P["OSSL_EC_POINT_get_affine_coordinates_GF2m"] = NULL)

\* The pointers tested whatever the version (lines 1060-1124).
RequiredAlways == {
    "OSSL_error_string", "OSSL_error_string_n", "OSSL_get_error",
    "OSSL_sha1", "OSSL_sha256", "OSSL_sha224", "OSSL_sha384", "OSSL_sha512",
    "OSSL_MD_CTX_new", "OSSL_MD_CTX_reset", "OSSL_MD_CTX_free",
    "OSSL_DigestInit_ex", "OSSL_MD_CTX_copy_ex", "OSSL_DigestUpdate",
    "OSSL_DigestFinal_ex", "OSSL_CIPHER_CTX_new", "OSSL_CIPHER_CTX_free",
    "OSSL_aes_128_cbc", "OSSL_aes_192_cbc", "OSSL_aes_256_cbc",
    "OSSL_CipherInit_ex", "OSSL_CIPHER_CTX_set_padding", "OSSL_CipherUpdate",
    "OSSL_CipherFinal_ex", "OSSL_aes_128_gcm", "OSSL_aes_192_gcm",
    "OSSL_aes_256_gcm", "OSSL_CIPHER_CTX_ctrl", "OSSL_DecryptInit_ex",
    "OSSL_DecryptUpdate", "OSSL_DecryptFinal", "OSSL_RSA_new",
    "OSSL_RSA_set0_key", "OSSL_RSA_set0_factors", "OSSL_RSA_set0_crt_params",
    "OSSL_RSA_free", "OSSL_RSA_public_decrypt", "OSSL_RSA_private_encrypt",
    "OSSL_BN_new", "OSSL_BN_bin2bn", "OSSL_BN_set_negative", "OSSL_BN_free",
    "OSSL_BN_bn2bin", "OSSL_BN_num_bits", "OSSL_EC_KEY_generate_key",
    "OSSL_EC_KEY_free", "OSSL_ECDH_compute_key", "OSSL_EC_KEY_get0_public_key",
    "OSSL_EC_KEY_get0_private_key", "OSSL_EC_KEY_new",
    "OSSL_EC_KEY_set_private_key", "OSSL_BN_CTX_new",
    "OSSL_EC_GROUP_new_curve_GFp", "OSSL_EC_KEY_set_group", "OSSL_EC_POINT_new",
    "OSSL_EC_POINT_set_affine_coordinates_GFp",
    "OSSL_EC_POINT_get_affine_coordinates_GFp", "OSSL_EC_GROUP_set_generator",
    "OSSL_EC_KEY_get0_group", "OSSL_EC_POINT_free", "OSSL_EC_GROUP_free",
    "OSSL_BN_CTX_free", "OSSL_EC_KEY_set_public_key", "OSSL_EC_KEY_check_key",
    "OSSL_PKCS12_key_gen" }

\* The pointers tested from 1.1.1 on (lines 1125-1146), from 1.1.0 on
\* (line 1148) and below 1.1.0 (lines 1149-1155).
Required_1_1_1 == {
    "OSSL_EVP_PKEY_get_raw_private_key", "OSSL_EVP_PKEY_get_raw_public_key",
    "OSSL_EVP_PKEY_new_raw_private_key", "OSSL_EVP_PKEY_new_raw_public_key",
    "OSSL_EVP_PKEY_CTX_new", "OSSL_EVP_PKEY_CTX_new_id",
    "OSSL_EVP_PKEY_keygen_init", "OSSL_EVP_PKEY_keygen",
    "OSSL_EVP_PKEY_CTX_free", "OSSL_EVP_PKEY_derive_init",
    "OSSL_EVP_PKEY_derive_set_peer", "OSSL_EVP_PKEY_derive",
    "OSSL_EVP_PKEY_free", "OSSL_ECDSA_do_sign", "OSSL_ECDSA_do_verify",
    "OSSL_ECDSA_SIG_new", "OSSL_ECDSA_SIG_free", "OSSL_ECDSA_SIG_get0_r",
    "OSSL_ECDSA_SIG_get0_s", "OSSL_ECDSA_SIG_set0" }

Required_1_1_0 == {"OSSL_chacha20", "OSSL_chacha20_poly1305"}

Required_1_0 == {
    "OSSL_CRYPTO_num_locks", "OSSL_CRYPTO_THREADID_set_numeric",
    "OSSL_OPENSSL_malloc", "OSSL_OPENSSL_free",
    "OSSL_CRYPTO_THREADID_set_callback", "OSSL_CRYPTO_set_locking_callback" }

\* The pointers the test of lines 1060-1156 reads for version ossl_ver.
RequiredFor(ossl_ver) ==
    RequiredAlways
    \cup (IF ossl_ver >= OPENSSL_VERSION_1_1_1 THEN Required_1_1_1 ELSE {})
    \cup (IF ossl_ver >= OPENSSL_VERSION_1_1_0 THEN Required_1_1_0 ELSE {})
    \cup (IF ossl_ver < OPENSSL_VERSION_1_1_0 THEN Required_1_0 ELSE {})

\* The test with the version-gated groups left out.
SymbolsMissing_ungated(P, ossl_ver) == \E p \in RequiredAlways : P[p] = NULL

\* The condition of lines 1060-1156: a required symbol is missing.
SymbolsMissing(P, ossl_ver) == \E p \in RequiredFor(ossl_ver) : P[p] = NULL

(***************************************************************************)
(* The state of the process.                                               *)
(*                                                                         *)
(* fs maps each file name the dynamic loader can open to the library       *)
(* found there: [banner, vsyms, fsyms, fipsmode, missing, num_locks];      *)
(* refcnt counts the references the process holds on it (dlopen adds one,  *)
(* dlclose removes one, the library is mapped while the count is           *)
(* positive).  A library handle is the file name it was opened from.       *)
(***************************************************************************)
VARIABLES
    platform, fs, refcnt,
    crypto_library, OSSL_IS_FIPS, fptr, EC_set_public_key, OSSL_ECGF2M,
    lock_cs, locking_callback, threadid_callback,
    call, events, ret,
    held, waiting,
    heap, jni,
    argv, proc, reported, criuArgs,
    pollset

\* call is the last entry point called, with crypto_library, lock_cs and
\* refcnt as they were when it was called; events is what it did to the
\* loader, the library and the mutexes; ret is what loadCrypto returned.
loaderVars == <<platform, fs, refcnt, crypto_library, OSSL_IS_FIPS, fptr,
                EC_set_public_key, OSSL_ECGF2M, lock_cs, locking_callback,
                threadid_callback, call, events, ret>>

\* The threads of the process that run inside the crypto library: held[t] is
\* the set of lock slots thread t is between acquire and release of, and
\* waiting[t] is the slot whose mutex t is blocked on inside the locking
\* callback (NoSlot when it is not inside the callback).
lockVars == <<held, waiting>>

\* heap holds the native objects behind the handles Java keeps: the handle
\* of an object is its address, a positive number.  jni is the last call of
\* an entry point that takes a handle: its name (entry), the handles it was
\* given (h), its other arguments (in), what it returned (ret), the handles
\* it dereferenced or gave to the library (used), what it wrote to its
\* output array (out), and whether the library faulted in it (fault).
handleVars == <<heap, jni>>

\* The launcher: argv is its command line, proc[p] where process p is,
\* reported the messages the launcher and its child have written, in the
\* order they wrote them, and criuArgs the arguments execvp has started criu
\* with (none before it has).
launcherVars == <<argv, proc, reported, criuArgs>>

\* The pollset of a selector: pollset.script[i] is what the operating system
\* answers to the i-th call an entry of PollsetArrayWrapper makes, and
\* pollset.arg the count or the timeout the entry is called with.
pollVars == <<pollset>>

\* What the crypto library's entry points do not touch.
moreVars == <<launcherVars, pollVars>>

\* What the loader does not touch.
otherVars == <<lockVars, handleVars, moreVars>>

VersionSymbols == {"OpenSSL_version", "SSLeay_version"}
FipsSymbols == {"EVP_default_properties_is_fips_enabled", "FIPS_mode"}

\* The symbols the library exports.
Exports(lib) == (FunctionSymbols \ lib.missing) \cup lib.vsyms \cup lib.fsyms

\* What a call into the loader or the library can change: the reference
\* counts, OSSL_IS_FIPS, and the log of the calls made.
Mem == [refcnt |-> refcnt, fips |-> OSSL_IS_FIPS, events |-> <<>>]
Log(m, e) == [m EXCEPT !.events = Append(@, e)]

Mapped(m, h) == h \in DOMAIN fs /\ m.refcnt[h] > 0

\* dlclose / FreeLibrary; an error, and no effect, on a handle that is not open.
unload_crypto_library(m, h) ==
    Log(IF Mapped(m, h) THEN [m EXCEPT !.refcnt[h] = @ - 1] ELSE m,
        <<"unload", h>>)

\* dlsym / GetProcAddress; NULL on a handle that is not open.
find_crypto_symbol(m, h, symname) ==
    IF Mapped(m, h) /\ symname \in Exports(fs[h]) THEN symname ELSE NULL

\* The range test applied to every library (lines 533, 547-548 have one each).
Compatible_anyRange(viaOpenSSL_version, ossl_ver) ==
    \/ OPENSSL_VERSION_1_0_0 <= ossl_ver /\ ossl_ver < OPENSSL_VERSION_2_0_0
    \/ OPENSSL_VERSION_3_0_0 <= ossl_ver /\ ossl_ver < OPENSSL_VERSION_4_0_0

\* The range tests of lines 533 and 547-548.
Compatible(viaOpenSSL_version, ossl_ver) ==
    IF viaOpenSSL_version
    THEN \/ OPENSSL_VERSION_1_1_0 <= ossl_ver /\ ossl_ver < OPENSSL_VERSION_2_0_0
         \/ OPENSSL_VERSION_3_0_0 <= ossl_ver /\ ossl_ver < OPENSSL_VERSION_4_0_0
    ELSE OPENSSL_VERSION_1_0_0 <= ossl_ver /\ ossl_ver < OPENSSL_VERSION_1_1_0

\* The library is rejected (lines 526-528, 538-540, 554-556): the log gets
\* <<"unload", h>>, then <<"version", h, -1>>.
RejectLibrary(m, h) ==
    [m |-> Log(unload_crypto_library(m, h), <<"version", h, -1>>), ret |-> -1]

\* Lines 560-577.
IsFips(m, h, ossl_ver) ==
    /\ find_crypto_symbol(m, h, IF ossl_ver >= OPENSSL_VERSION_3_0_0
                                THEN "EVP_default_properties_is_fips_enabled"
                                ELSE "FIPS_mode") # NULL
    /\ fs[h].fipsmode = 1

\* The library is accepted (lines 560-584): the log gets
\* <<"version", h, ossl_ver>>.
AcceptLibrary(m, h, ossl_ver) ==
    [m |-> Log([m EXCEPT !.fips = IsFips(m, h, ossl_ver)], <<"version", h, ossl_ver>>),
     ret |-> ossl_ver]

CheckVersion(m, h, viaOpenSSL_version, ossl_ver) ==
    IF Compatible(viaOpenSSL_version, ossl_ver)
    THEN AcceptLibrary(m, h, ossl_ver)
    ELSE RejectLibrary(m, h)

\* get_crypto_library_version on the open handle h: [m, ret].
get_crypto_library_version(m, h) ==
    IF /\ find_crypto_symbol(m, h, "OpenSSL_version") = NULL
       /\ find_crypto_symbol(m, h, "SSLeay_version") = NULL
    THEN RejectLibrary(m, h)
    ELSE CheckVersion(m, h, find_crypto_symbol(m, h, "OpenSSL_version") # NULL,
                      extractVersionToJlong(fs[h].banner))

\* load_crypto_library: [m, result].  The log gets <<"load", libName, ok>>.
load_crypto_library(m, libName) ==
    IF libName = NULL \/ libName = <<>>
    THEN [m |-> m, result |-> NULL]
    ELSE IF libName \in DOMAIN fs
    THEN [m |-> Log([m EXCEPT !.refcnt[libName] = @ + 1], <<"load", libName, TRUE>>),
          result |-> libName]
    ELSE [m |-> Log(m, <<"load", libName, FALSE>>), result |-> NULL]

\* The loop of lines 703-741 from index i on; failing holds the indexes at
\* which malloc returns NULL for libNameWithPath (the log gets
\* <<"malloc", "libNameWithPath", i>>).  found tells whether the
\* loop returned (line 739) or ran to its end.  BundledLoaded is the loop body
\* from line 726 on, l being what load_crypto_library returned; BundledProbed
\* is the body from line 737 on, v being what get_crypto_library_version
\* returned.
RECURSIVE BundledSearch(_, _, _, _, _)
RECURSIVE BundledLoaded(_, _, _, _, _)
RECURSIVE BundledProbed(_, _, _, _, _, _)
BundledSearch(m, plat, chomepath, i, failing) ==
    IF i >= numOfLibs(plat) THEN [m |-> m, result |-> NULL, found |-> FALSE]
    ELSE IF i \in failing
    THEN BundledSearch(Log(m, <<"malloc", "libNameWithPath", i>>), plat, chomepath,
                       i + 1, failing)
    ELSE BundledLoaded(
             load_crypto_library(m, BundledPath(plat, chomepath, libNames(plat)[i + 1])),
             plat, chomepath, i, failing)

BundledLoaded(l, plat, chomepath, i, failing) ==
    IF l.result = NULL
    THEN BundledSearch(l.m, plat, chomepath, i + 1, failing)
    ELSE BundledProbed(get_crypto_library_version(l.m, l.result), l.result,
                       plat, chomepath, i, failing)

BundledProbed(v, result, plat, chomepath, i, failing) ==
    IF v.ret > 0
    THEN [m |-> v.m, result |-> result, found |-> TRUE]
    ELSE BundledSearch(v.m, plat, chomepath, i + 1, failing)

\* The loop with the break of lines 779-782 after every compatible library.
StopAfter_always(plat, i) == TRUE

\* The break of lines 779-782.
StopAfter(plat, i) == i >= num_of_generic(plat)

\* Lines 769-777 with the comparison >= in place of >.
KeepLibrary_latest(m, result, tempVersion, prevResult, previousVersion) ==
    IF tempVersion >= previousVersion
    THEN [m |-> IF previousVersion # 0
                THEN unload_crypto_library(m, prevResult)
                ELSE m,
          prevResult |-> result, previousVersion |-> tempVersion]
    ELSE [m |-> unload_crypto_library(m, result),
          prevResult |-> prevResult, previousVersion |-> previousVersion]

\* Lines 769-777: the library kept, the other one unloaded.
KeepLibrary(m, result, tempVersion, prevResult, previousVersion) ==
    IF tempVersion > previousVersion
    THEN [m |-> IF previousVersion # 0
                THEN unload_crypto_library(m, prevResult)
                ELSE m,
          prevResult |-> result, previousVersion |-> tempVersion]
    ELSE [m |-> unload_crypto_library(m, result),
          prevResult |-> prevResult, previousVersion |-> previousVersion]

\* The loop of lines 748-783 from index i on, and the return of line 789.
\* SystemLoaded is the loop body from line 754 on, SystemProbed from line 765
\* on, SystemKept from line 779 on (k being what lines 769-777 left).
RECURSIVE SystemSearch(_, _, _, _, _)
RECURSIVE SystemLoaded(_, _, _, _, _)
RECURSIVE SystemProbed(_, _, _, _, _, _)
RECURSIVE SystemKept(_, _, _)
SystemSearch(m, plat, i, prevResult, previousVersion) ==
    IF i >= numOfLibs(plat) THEN [m |-> m, result |-> prevResult]
    ELSE SystemLoaded(load_crypto_library(m, SystemPath(libNames(plat)[i + 1])),
                      plat, i, prevResult, previousVersion)

SystemLoaded(l, plat, i, prevResult, previousVersion) ==
    IF l.result = NULL
    THEN SystemSearch(l.m, plat, i + 1, prevResult, previousVersion)
    ELSE SystemProbed(get_crypto_library_version(l.m, l.result), l.result,
                      plat, i, prevResult, previousVersion)

SystemProbed(v, result, plat, i, prevResult, previousVersion) ==
    IF v.ret <= 0
    THEN SystemSearch(v.m, plat, i + 1, prevResult, previousVersion)
    ELSE SystemKept(KeepLibrary(v.m, result, v.ret, prevResult, previousVersion),
                    plat, i)

SystemKept(k, plat, i) ==
    IF StopAfter(plat, i)
    THEN [m |-> k.m, result |-> k.prevResult]
    ELSE SystemSearch(k.m, plat, i + 1, k.prevResult, k.previousVersion)

\* The bundled search always skipped.
TryBundled_never(loaded, chomepath) == FALSE

\* The condition of line 678; loaded is the global crypto_library.
TryBundled(loaded, chomepath) ==
    chomepath # NULL /\ chomepath # "" /\ loaded = NULL

\* Lines 742-789: b is what the loop of lines 703-741 left.
AfterBundled(b, plat) ==
    IF b.found THEN [m |-> b.m, result |-> b.result]
    ELSE SystemSearch(b.m, plat, 0, NULL, 0)

\* find_crypto_library: [m, result].  libPathFails tells whether malloc
\* returns NULL for libPath (line 686; the log gets <<"malloc", "libPath">>).
find_crypto_library(m, loaded, plat, chomepath, libPathFails, failing) ==
    IF TryBundled(loaded, chomepath)
    THEN IF libPathFails
         THEN [m |-> Log(m, <<"malloc", "libPath">>), result |-> NULL]
         ELSE AfterBundled(BundledSearch(m, plat, chomepath, 0, failing), plat)
    ELSE SystemSearch(m, plat, 0, NULL, 0)

(***************************************************************************)
(* thread_setup (lines 1181-1284).                                         *)
(***************************************************************************)
\* The globals a call may assign.
Globals ==
    [crypto_library |-> crypto_library, fptr |-> fptr,
     EC_set_public_key |-> EC_set_public_key, OSSL_ECGF2M |-> OSSL_ECGF2M,
     lock_cs |-> lock_cs, locking_callback |-> locking_callback,
     threadid_callback |-> threadid_callback]

\* <<e, 0>>, ..., <<e, n - 1>>
Each(e, n) == [j \in 1..n |-> <<e, j - 1>>]
LogAll(m, es) == [m EXCEPT !.events = @ \o es]

\* lockNum mutexes just created: 0, not locked.  The mutex of lock_cs[i] is
\* the element i + 1 of the sequence.
RECURSIVE Mutexes(_)
Mutexes(lockNum) == IF lockNum = 0 THEN <<>> ELSE Append(Mutexes(lockNum - 1), 0)

locking_callback_of(plat) ==
    IF plat = "windows" THEN "win32_locking_callback" ELSE "pthreads_locking_callback"

\* thread_setup that keeps the mutexes and the array when a mutex cannot be
\* created.
thread_setup_leaky(m, g, h, plat, mallocOK, initFailAt) ==
    LET lockNum == fs[h].num_locks
        m1 == Log(m, <<"OPENSSL_malloc", mallocOK>>)
    IN  IF ~mallocOK
        THEN [m |-> m1, g |-> [g EXCEPT !.lock_cs = NULL], ret |-> -1]
        ELSE IF initFailAt < lockNum
        THEN [m |-> LogAll(m1, Each("mutex_init", initFailAt)),
              g |-> [g EXCEPT !.lock_cs = Mutexes(lockNum)],
              ret |-> -1]
        ELSE [m |-> LogAll(m1, Each("mutex_init", lockNum)),
              g |-> [g EXCEPT !.lock_cs = Mutexes(lockNum)],
              ret |-> 0]

\* thread_setup: [m, g, ret].  mallocOK tells whether OPENSSL_malloc returns
\* memory; initFailAt is the index of the mutex that cannot be created
\* (lockNum when all can).  
thread_setup(m, g, h, plat, mallocOK, initFailAt) ==
    LET lockNum == fs[h].num_locks
        m1 == Log(m, <<"OPENSSL_malloc", mallocOK>>)
    IN  IF ~mallocOK
        THEN [m |-> m1, g |-> [g EXCEPT !.lock_cs = NULL], ret |-> -1]
        ELSE IF initFailAt < lockNum
        THEN [m |-> Log(LogAll(LogAll(m1, Each("mutex_init", initFailAt)),
                               Each("mutex_destroy", initFailAt)),
                        <<"OPENSSL_free", "lock_cs">>),
              g |-> [g EXCEPT !.lock_cs = NULL],
              ret |-> -1]
        ELSE [m |-> Log(IF plat = "windows"
                        THEN LogAll(m1, Each("mutex_init", lockNum))
                        ELSE Log(LogAll(m1, Each("mutex_init", lockNum)),
                                 <<"CRYPTO_THREADID_set_callback", "pthreads_thread_id">>),
                        <<"CRYPTO_set_locking_callback", locking_callback_of(plat)>>),
              g |-> [g EXCEPT !.lock_cs = Mutexes(lockNum),
                              !.locking_callback = locking_callback_of(plat),
                              !.threadid_callback =
                                  IF plat = "windows" THEN @ ELSE "pthreads_thread_id"],
              ret |-> 0]

(***************************************************************************)
(* loadCrypto (lines 797-1179) and JNI_OnUnload (lines 1286-1318).         *)
(***************************************************************************)
\* The call returns r and leaves the memory m and the globals g.
Return(op, m, g, r) ==
    /\ call' = [op |-> op, crypto_library |-> crypto_library, lock_cs |-> lock_cs,
                refcnt |-> refcnt]
    /\ refcnt' = m.refcnt
    /\ OSSL_IS_FIPS' = m.fips
    /\ events' = m.events
    /\ crypto_library' = g.crypto_library
    /\ fptr' = g.fptr
    /\ EC_set_public_key' = g.EC_set_public_key
    /\ OSSL_ECGF2M' = g.OSSL_ECGF2M
    /\ lock_cs' = g.lock_cs
    /\ locking_callback' = g.locking_callback
    /\ threadid_callback' = g.threadid_callback
    /\ ret' = r
    /\ UNCHANGED <<platform, fs, otherVars>>

\* Lines 1158-1177: t is what thread_setup returned.
AfterThreadSetup(t, h, ossl_ver) ==
    IF t.ret # 0
    THEN Return("loadCrypto", unload_crypto_library(t.m, h),
                [t.g EXCEPT !.crypto_library = NULL], -1)
    ELSE Return("loadCrypto", t.m, t.g, ossl_ver)

\* Lines 1060-1178: the test for missing symbols and thread_setup, g holding
\* the pointers as the lookups left them.
CheckSymbols(m, g, h, ossl_ver) ==
    IF SymbolsMissing(g.fptr, ossl_ver)
    THEN Return("loadCrypto", unload_crypto_library(m, h),
                [g EXCEPT !.crypto_library = NULL], -1)
    ELSE IF ossl_ver < OPENSSL_VERSION_1_1_0
    THEN \E mallocOK \in BOOLEAN :
         \E initFailAt \in (IF mallocOK THEN 0..fs[h].num_locks
                            ELSE {fs[h].num_locks}) :
           AfterThreadSetup(
               thread_setup(m, g, h, platform, mallocOK, initFailAt), h, ossl_ver)
    ELSE Return("loadCrypto", m, g, ossl_ver)

\* The globals after lines 868-1058 assigned the pointers P.
WithPointers(g, P) ==
    [g EXCEPT !.fptr = P,
              !.EC_set_public_key = Bind_EC_set_public_key(P),
              !.OSSL_ECGF2M = Bind_OSSL_ECGF2M(P)]

\* The symbols find_crypto_symbol resolves on the handle h.
Resolvable(m, h) == IF Mapped(m, h) THEN Exports(fs[h]) ELSE {}

\* Lines 868-1178: v is what get_crypto_library_version returned at line 866.
\* The log gets <<"lookup", h, ossl_ver>>.
LookupSymbols(v, h) ==
    CheckSymbols(Log(v.m, <<"lookup", h, v.ret>>),
                 WithPointers([Globals EXCEPT !.crypto_library = h],
                              BindSymbols(fptr, v.ret, Resolvable(v.m, h))),
                 h, v.ret)

\* Lines 866-1178, on the handle h held in crypto_library.
LoadSymbols(m, h) == LookupSymbols(get_crypto_library_version(m, h), h)

\* The values of the properties jdk.native.openssl.lib and java.home.
UserLibName == "/opt/openssl/lib/libcrypto.so"
JavaHome == "/opt/jdk"
JLibNames == {NULL, "", UserLibName}
JHomePaths == {NULL, "", JavaHome}

\* The sets of indexes at which malloc may fail in the bundled search.
FailingSets(plat) == {{}} \cup {{i} : i \in 0..(numOfLibs(plat) - 1)}

\* Lines 855-1178: found is what find_crypto_library returned (the log gets
\* <<"found", result>>).
AfterFind(found) ==
    IF found.result = NULL
    THEN Return("loadCrypto", Log(found.m, <<"found", NULL>>),
                [Globals EXCEPT !.crypto_library = NULL], -1)
    ELSE LoadSymbols(Log(found.m, <<"found", found.result>>), found.result)

\* Lines 848-1178: named is the memory and crypto_library as lines 804-830
\* left them.  The log gets <<"find_crypto_library", chomepath>> when the
\* function is called.
FindAndLoad(named, chomepath) ==
    IF named.result # NULL
    THEN LoadSymbols(named.m, named.result)
    ELSE \E libPathFails \in (IF TryBundled(named.result, chomepath)
                              THEN BOOLEAN ELSE {FALSE}) :
         \E failing \in (IF TryBundled(named.result, chomepath) /\ ~libPathFails
                         THEN FailingSets(platform) ELSE {{}}) :
           AfterFind(find_crypto_library(
                         Log(named.m, <<"find_crypto_library", chomepath>>),
                         named.result, platform, chomepath, libPathFails, failing))

\* Lines 832-1178.  homeUTF tells whether GetStringUTFChars returns the
\* characters of jhomepath.
GetHomePath(named) ==
    \E jhomepath \in JHomePaths :
    \E homeUTF \in (IF jhomepath = NULL THEN {TRUE} ELSE BOOLEAN) :
      IF ~homeUTF
      THEN Return("loadCrypto", named.m,
                  [Globals EXCEPT !.crypto_library = named.result], -1)
      ELSE FindAndLoad(named, IF jhomepath = NULL THEN "" ELSE jhomepath)

\* Lines 819-1178: named is what load_crypto_library returned for clibname.
AfterNamed(named, jlibname) ==
    IF jlibname \notin {NULL, ""} /\ named.result = NULL
    THEN Return("loadCrypto", named.m, [Globals EXCEPT !.crypto_library = NULL], -1)
    ELSE GetHomePath(named)

\* loadCrypto, called once, by the static initializer of NativeCrypto.
\* libUTF tells whether GetStringUTFChars returns the characters of jlibname.
loadCrypto ==
    /\ call.op = "none"
    /\ \E jlibname \in JLibNames :
       \E libUTF \in (IF jlibname = NULL THEN {TRUE} ELSE BOOLEAN) :
         IF ~libUTF
         THEN Return("loadCrypto", Mem, Globals, -1)
         ELSE AfterNamed(IF jlibname \in {NULL, ""}
                         THEN [m |-> Mem, result |-> crypto_library]
                         ELSE load_crypto_library(Mem, <<jlibname>>),
                         jlibname)

\* Lines 1298-1314 with the callback cleared after the mutexes are gone.
DestroyLocks_callbackLast(m, lockNum) ==
    Log(Log(LogAll(m, Each("mutex_destroy", lockNum)),
            <<"OPENSSL_free", "lock_cs">>),
        <<"CRYPTO_set_locking_callback", NULL>>)

\* Lines 1298-1314: the callback is cleared, each mutex destroyed, the array
\* freed.
DestroyLocks(m, lockNum) ==
    Log(LogAll(Log(m, <<"CRYPTO_set_locking_callback", NULL>>),
               Each("mutex_destroy", lockNum)),
        <<"OPENSSL_free", "lock_cs">>)

\* JNI_OnUnload, called when the class loader of NativeCrypto is collected.
JNI_OnUnload ==
    IF crypto_library = NULL
    THEN Return("JNI_OnUnload", Mem, Globals, ret)
    ELSE IF fptr["OSSL_CRYPTO_num_locks"] = NULL \/ lock_cs = NULL
    THEN Return("JNI_OnUnload", unload_crypto_library(Mem, crypto_library),
                [Globals EXCEPT !.crypto_library = NULL], ret)
    ELSE Return("JNI_OnUnload",
                unload_crypto_library(
                    DestroyLocks(Mem, fs[crypto_library].num_locks), crypto_library),
                [Globals EXCEPT !.locking_callback = NULL,
                                !.lock_cs = NULL,
                                !.crypto_library = NULL], ret)

(***************************************************************************)
(* The locking callbacks thread_setup registers with OpenSSL 1.0.x (lines  *)
(* 1213-1230 and 1264-1278).  The library calls the registered callback    *)
(* with a mode and the number of a lock slot, from any of its threads.  A  *)
(* mutex of lock_cs is 0 when free and the number of its owner when taken. *)
(***************************************************************************)
CRYPTO_LOCK == 1

MaxThreads == 3
Threads == 1..MaxThreads
NoSlot == 0 - 1

RECURSIVE BitAnd(_, _)
BitAnd(a, b) ==
    IF a = 0 \/ b = 0 THEN 0
    ELSE 2 * BitAnd(a \div 2, b \div 2) + (IF a % 2 = 1 /\ b % 2 = 1 THEN 1 ELSE 0)

\* The modes the library passes: lock or unlock (2), for reading (4) or for
\* writing (8).
LockModes == {CRYPTO_LOCK + 4, CRYPTO_LOCK + 8, 2 + 4, 2 + 8}

\* Every slot of the callback falls on the first mutex.
MutexOf_shared(type) == 1

\* lock_cs[type]: the element of the sequence that holds it.
MutexOf(type) == type + 1

\* The slots the library may pass: 0 .. CRYPTO_num_locks() - 1.
LockSlots == IF lock_cs = NULL THEN {} ELSE 0..(Len(lock_cs) - 1)

\* pthread_mutex_lock and WaitForSingleObject return once the mutex is
\* free, and the caller owns it from then on.
mutex_lock(t) ==
    /\ locking_callback # NULL
    /\ waiting[t] # NoSlot
    /\ lock_cs[MutexOf(waiting[t])] = 0
    /\ lock_cs' = [lock_cs EXCEPT ![MutexOf(waiting[t])] = t]
    /\ held' = [held EXCEPT ![t] = @ \cup {waiting[t]}]
    /\ waiting' = [waiting EXCEPT ![t] = NoSlot]
    /\ UNCHANGED <<platform, fs, refcnt, crypto_library, OSSL_IS_FIPS, fptr,
                   EC_set_public_key, OSSL_ECGF2M, locking_callback,
                   threadid_callback, call, events, ret, handleVars,
                   moreVars>>

\* The body of both callbacks, called by thread t: with CRYPTO_LOCK in mode
\* the thread goes to lock the mutex of the slot, otherwise it unlocks it.
\* The library calls it in pairs: to lock a slot the thread does not hold,
\* to unlock one it holds.
locking_callback_body(t, mode, type) ==
    /\ waiting[t] = NoSlot
    /\ IF 0 # BitAnd(mode, CRYPTO_LOCK)
       THEN /\ type \notin held[t]
            /\ waiting' = [waiting EXCEPT ![t] = type]
            /\ UNCHANGED <<lock_cs, held>>
       ELSE /\ type \in held[t]
            /\ lock_cs' = [lock_cs EXCEPT ![MutexOf(type)] = 0]
            /\ held' = [held EXCEPT ![t] = @ \ {type}]
            /\ UNCHANGED waiting
    /\ UNCHANGED <<platform, fs, refcnt, crypto_library, OSSL_IS_FIPS, fptr,
                   EC_set_public_key, OSSL_ECGF2M, locking_callback,
                   threadid_callback, call, events, ret, handleVars,
                   moreVars>>

pthreads_locking_callback ==
    /\ locking_callback = "pthreads_locking_callback"
    /\ \E t \in Threads, mode \in LockModes, type \in LockSlots :
         locking_callback_body(t, mode, type)

win32_locking_callback ==
    /\ locking_callback = "win32_locking_callback"
    /\ \E t \in Threads, mode \in LockModes, type \in LockSlots :
         locking_callback_body(t, mode, type)

MutexGranted == \E t \in Threads : mutex_lock(t)

\* No thread is inside the library.
IdleThreads ==
    /\ held = [t \in Threads |-> {}]
    /\ waiting = [t \in Threads |-> NoSlot]

(***************************************************************************)
(* The entry points that take a handle.  Java calls them after loadCrypto  *)
(* has returned a version, with 0 or with a handle an entry point of the   *)
(* same kind returned and none has destroyed yet.                          *)
(***************************************************************************)
MaxHandles == 2
MaxLive == 1
Addresses == 1..MaxHandles

\* loadCrypto returned the version of the library (line 1174).
CryptoLoaded == call.op = "loadCrypto" /\ ret > 0

\* The handles of the live objects of a kind.
Handles(kind) == {c \in DOMAIN heap : heap[c].kind = kind}

\* malloc and the library's constructors return an address not in use.
NewAddress == CHOOSE a \in Addresses : a \notin DOMAIN heap /\
                  \A b \in Addresses : b \notin DOMAIN heap => a <= b

Allocate(H, object) == [c \in DOMAIN H \cup {NewAddress} |->
                           IF c \in DOMAIN H THEN H[c] ELSE object]
Free(H, c) == [d \in DOMAIN H \ {c} |-> H[d]]

\* The entry point op returns r: H is the heap it leaves.
Done(op, h, in, r, used, out, fault, H) ==
    /\ jni' = [entry |-> op, h |-> h, in |-> in, ret |-> r, used |-> used,
               out |-> out, fault |-> fault]
    /\ heap' = H
    /\ UNCHANGED <<loaderVars, lockVars, moreVars>>

\* The library is given a null pointer where it expects an object; it reads
\* through it.  The read traps, or it finds a zero page and the call fails.
LibraryGivenNull(op, h, in, used, H) ==
    \E fault \in BOOLEAN : Done(op, h, in, 0 - 1, used, <<>>, fault, H)

\* An entry point can be called.
Callable == CryptoLoaded /\ ~jni.fault

IdleHandles ==
    /\ heap = [c \in {} |-> NULL]
    /\ jni = [entry |-> "none", h |-> <<>>, in |-> <<>>, ret |-> 0, used |-> <<>>,
              out |-> <<>>, fault |-> FALSE]

(***************************************************************************)
(* Digests (lines 1338-1591).  An EVP_MD_CTX is the pair of its algorithm  *)
(* and the bytes it has absorbed since EVP_DigestInit_ex; the digest it    *)
(* yields is a function of the two and of nothing else.                    *)
(***************************************************************************)
MaxData == 1

\* The null pointer to an EVP_MD_CTX.
NULL_CTX == <<>>

EVP_DigestInit_ex(digestAlg) == <<digestAlg, <<>>>>
EVP_DigestUpdate(ctx, data) == <<ctx[1], ctx[2] \o data>>
EVP_DigestFinal_ex(ctx) == <<"digest", ctx[1], ctx[2]>>
EVP_MD_size(ctx) ==
    CASE ctx[1] = "EVP_md5" -> 16
      [] ctx[1] = "EVP_sha1" -> 20
      [] ctx[1] = "EVP_sha224" -> 28
      [] ctx[1] = "EVP_sha256" -> 32
      [] ctx[1] = "EVP_sha384" -> 48
      [] ctx[1] = "EVP_sha512" -> 64

\* The switch of DigestCreateContext (lines 1345-1366).
DigestAlgOf(algoIdx) ==
    CASE algoIdx = "MD5" -> "EVP_md5"
      [] algoIdx = "SHA1_160" -> "EVP_sha1"
      [] algoIdx = "SHA2_224" -> "EVP_sha224"
      [] algoIdx = "SHA2_256" -> "EVP_sha256"
      [] algoIdx = "SHA5_384" -> "EVP_sha384"
      [] algoIdx = "SHA5_512" -> "EVP_sha512"
      [] OTHER -> NULL

OpenSSLMDContext(ctx, digestAlg, cached) ==
    [kind |-> "digest", ctx |-> ctx, digestAlg |-> digestAlg,
     cachedInitializedDigestContext |-> cached]

\* Lines 1388-1409: the cached copy is taken from the working context before
\* the context to copy, if there is one, is copied over the working context.
CreateDigest(algoIdx, copyContext, failing) ==
    IF failing \in {"MD_CTX_new cached", "MD_CTX_copy_ex cached"}
    THEN Done("DigestCreateContext", <<>>, <<algoIdx, copyContext>>, 0 - 1,
              <<>>, <<>>, FALSE, heap)
    ELSE IF copyContext # 0 /\ (heap[copyContext].ctx = NULL_CTX
                                \/ failing = "MD_CTX_copy_ex")
    THEN Done("DigestCreateContext", <<>>, <<algoIdx, copyContext>>, 0 - 1,
              <<copyContext>>, <<>>, FALSE, heap)
    ELSE Done("DigestCreateContext", <<>>, <<algoIdx, copyContext>>, NewAddress,
              IF copyContext = 0 THEN <<>> ELSE <<copyContext>>, <<>>, FALSE,
              Allocate(heap,
                  OpenSSLMDContext(
                      IF copyContext = 0
                      THEN EVP_DigestInit_ex(DigestAlgOf(algoIdx))
                      ELSE heap[copyContext].ctx,
                      DigestAlgOf(algoIdx),
                      EVP_DigestInit_ex(DigestAlgOf(algoIdx)))))

DigestCreateFailures ==
    {"none", "MD_CTX_new", "DigestInit_ex", "malloc", "MD_CTX_new cached",
     "MD_CTX_copy_ex cached", "MD_CTX_copy_ex"}

DigestCreateContext ==
    /\ Callable
    /\ Addresses \ DOMAIN heap # {}
    /\ \E algoIdx \in {"MD5", "SHA2_256", "SHA3_256"},
          copyContext \in {0} \cup Handles("digest"),
          failing \in DigestCreateFailures :
         IF DigestAlgOf(algoIdx) = NULL
            \/ failing \in {"MD_CTX_new", "DigestInit_ex", "malloc"}
         THEN Done("DigestCreateContext", <<>>, <<algoIdx, copyContext>>, 0 - 1,
                   <<>>, <<>>, FALSE, heap)
         ELSE CreateDigest(algoIdx, copyContext, failing)

DigestDestroyContext ==
    /\ Callable
    /\ \E c \in {0} \cup Handles("digest") :
         IF c = 0
         THEN Done("DigestDestroyContext", <<c>>, <<>>, 0 - 1, <<>>, <<>>, FALSE, heap)
         ELSE Done("DigestDestroyContext", <<c>>, <<>>, 0, <<c>>, <<>>, FALSE,
                   Free(heap, c))

\* The byte arrays Java passes, with the offsets and lengths that lie in
\* them.
ByteArrays == {<<0>>, <<1, 0>>}
Ranges(array) ==
    {<<offset, len>> \in (0..Len(array)) \X (0..Len(array)) :
         offset + len <= Len(array)}

\* messageNative + messageOffset, messageLen bytes of it.
Slice(array, offset, len) == SubSeq(array, offset + 1, offset + len)

\* What the arguments message, messageOffset and messageLen designate:
\* whether message is the null reference, and if not the bytes
\* messageNative + messageOffset points to.
MessageArgs(isNull, message, range) ==
    <<isNull, IF isNull THEN <<>> ELSE Slice(message, range[1], range[2])>>

\* The message arguments Java passes.
Messages ==
    {MessageArgs(TRUE, <<>>, <<0, 0>>)}
    \cup UNION {{MessageArgs(FALSE, message, range) : range \in Ranges(message)} :
                    message \in ByteArrays}

\* The working context can take the message.
Fits(c, messageLen) ==
    IF c = 0 THEN TRUE
    ELSE IF heap[c].ctx = NULL_CTX THEN TRUE
    ELSE Len(heap[c].ctx[2]) + messageLen <= MaxData

\* DigestUpdate, once the message is pinned (lines 1473-1481).
UpdatePinned(c, in, failing) ==
    IF heap[c].ctx = NULL_CTX
    THEN LibraryGivenNull("DigestUpdate", <<c>>, in, <<c>>, heap)
    ELSE IF failing = "DigestUpdate"
    THEN Done("DigestUpdate", <<c>>, in, 0 - 1, <<c>>, <<>>, FALSE, heap)
    ELSE Done("DigestUpdate", <<c>>, in, 0, <<c>>, <<>>, FALSE,
              [heap EXCEPT ![c].ctx =
                  EVP_DigestUpdate(@, in[2])])

DigestUpdate ==
    /\ Callable
    /\ \E c \in {0} \cup Handles("digest"), in \in Messages,
          failing \in {"none", "pin message", "DigestUpdate"} :
         /\ Fits(c, Len(in[2]))
         /\ IF c = 0 \/ in[1] \/ failing = "pin message"
            THEN Done("DigestUpdate", <<c>>, in, 0 - 1, <<>>, <<>>, FALSE, heap)
            ELSE UpdatePinned(c, in, failing)

\* EVP_MD_CTX_copy_ex(ctx, cachedInitializedDigestContext) the wrong way
\* round.
ResetContext_toCached(H, c) ==
    [H EXCEPT ![c].cachedInitializedDigestContext = H[c].ctx]

\* EVP_MD_CTX_copy_ex(context->ctx, context->cachedInitializedDigestContext)
\* returns 1: the working context is what the cached one is.
ResetContext(H, c) ==
    [H EXCEPT ![c].ctx = H[c].cachedInitializedDigestContext]

\* EVP_MD_CTX_copy_ex fails: both contexts are freed and their fields
\* cleared (lines 1540-1552 and 1576-1588).
ReleaseBoth(H, c) ==
    [H EXCEPT ![c].ctx = NULL_CTX, ![c].cachedInitializedDigestContext = NULL_CTX]

\* DigestComputeAndReset from the pinning of the digest array on (lines
\* 1524-1555): ctx1 is the working context after the message.
ComputeAndReset(c, in, failing, ctx1) ==
    IF failing \in {"pin digest", "DigestFinal_ex"}
    THEN Done("DigestComputeAndReset", <<c>>, in, 0 - 1, <<c>>, <<>>, FALSE,
              [heap EXCEPT ![c].ctx = ctx1])
    ELSE IF failing = "MD_CTX_copy_ex"
    THEN Done("DigestComputeAndReset", <<c>>, in, 0 - 1, <<c>>,
              EVP_DigestFinal_ex(ctx1), FALSE, ReleaseBoth(heap, c))
    ELSE Done("DigestComputeAndReset", <<c>>, in, EVP_MD_size(ctx1), <<c>>,
              EVP_DigestFinal_ex(ctx1), FALSE, ResetContext(heap, c))

\* Lines 1506-1522: the message, if there is one, goes into the working
\* context first.
ComputeMessage(c, in, failing) ==
    IF in[1]
    THEN ComputeAndReset(c, in, failing, heap[c].ctx)
    ELSE IF failing \in {"pin message", "DigestUpdate"}
    THEN Done("DigestComputeAndReset", <<c>>, in, 0 - 1, <<c>>, <<>>, FALSE, heap)
    ELSE ComputeAndReset(c, in, failing,
             EVP_DigestUpdate(heap[c].ctx, in[2]))

\* The handle is null, or one of its two contexts is (line 1502).
NoContexts(c) ==
    \/ c = 0
    \/ heap[c].ctx = NULL_CTX
    \/ heap[c].cachedInitializedDigestContext = NULL_CTX

DigestComputeAndReset ==
    /\ Callable
    /\ \E c \in {0} \cup Handles("digest"), in \in Messages,
          failing \in {"none", "pin message", "DigestUpdate", "pin digest",
                       "DigestFinal_ex", "MD_CTX_copy_ex"} :
         /\ Fits(c, Len(in[2]))
         /\ IF NoContexts(c)
            THEN Done("DigestComputeAndReset", <<c>>, in, 0 - 1,
                      IF c = 0 THEN <<>> ELSE <<c>>, <<>>, FALSE, heap)
            ELSE ComputeMessage(c, in, failing)

DigestReset ==
    /\ Callable
    /\ \E c \in {0} \cup Handles("digest"), failing \in {"none", "MD_CTX_copy_ex"} :
         IF NoContexts(c)
         THEN Done("DigestReset", <<c>>, <<>>, 0 - 1,
                   IF c = 0 THEN <<>> ELSE <<c>>, <<>>, FALSE, heap)
         ELSE IF failing = "MD_CTX_copy_ex"
         THEN Done("DigestReset", <<c>>, <<>>, 0 - 1, <<c>>, <<>>, FALSE,
                   ReleaseBoth(heap, c))
         ELSE Done("DigestReset", <<c>>, <<>>, 0, <<c>>, <<>>, FALSE,
                   ResetContext(heap, c))

(***************************************************************************)
(* The other entry points that take a handle, as far as the handle goes:   *)
(* what they do before they use it, and what they return.                  *)
(***************************************************************************)
\* An entry point that makes an object of a kind and returns its handle, or
\* -1 when a step of it fails.
Creates(entry, kind, failures) ==
    /\ Callable
    /\ Addresses \ DOMAIN heap # {}
    /\ \E failing \in {"none"} \cup failures :
         IF failing # "none"
         THEN Done(entry, <<>>, <<failing>>, 0 - 1, <<>>, <<>>, FALSE, heap)
         ELSE Done(entry, <<>>, <<failing>>, NewAddress, <<>>, <<>>, FALSE,
                   Allocate(heap, [kind |-> kind]))

\* An entry point that begins with if (NULL == handle) return -1, and gives
\* the handle to the library afterwards; results are what it returns when
\* no step fails.
Checked(entry, kind, failures, results) ==
    /\ Callable
    /\ \E c \in {0} \cup Handles(kind), failing \in {"none"} \cup failures,
          r \in results :
         IF c = 0
         THEN Done(entry, <<c>>, <<failing>>, 0 - 1, <<>>, <<>>, FALSE, heap)
         ELSE Done(entry, <<c>>, <<failing>>, IF failing = "none" THEN r ELSE 0 - 1,
                   <<c>>, <<>>, FALSE, heap)

\* An entry point that gives its handles hs to the library with no test:
\* before are the steps that come first, and make it return -1 when they
\* fail; error is what it returns when the library fails.
Unchecked(entry, hs, failing, before, error, r) ==
    IF failing \in before
    THEN Done(entry, hs, <<failing>>, 0 - 1, <<>>, <<>>, FALSE, heap)
    ELSE IF \E i \in DOMAIN hs : hs[i] = 0
    THEN LibraryGivenNull(entry, hs, <<failing>>, hs, heap)
    ELSE Done(entry, hs, <<failing>>, IF failing = "none" THEN r ELSE error,
              hs, <<>>, FALSE, heap)

CreateContext == Creates("CreateContext", "cipher", {"CIPHER_CTX_new"})

DestroyContext ==
    /\ Callable
    /\ \E c \in {0} \cup Handles("cipher") :
         IF c = 0
         THEN Done("DestroyContext", <<c>>, <<>>, 0 - 1, <<>>, <<>>, FALSE, heap)
         ELSE Done("DestroyContext", <<c>>, <<>>, 0, <<c>>, <<>>, FALSE,
                   Free(heap, c))

CBCInit ==
    Checked("CBCInit", "cipher",
            {"keyLen", "CipherInit_ex", "pin iv", "pin key"}, {0})
CBCUpdate ==
    Checked("CBCUpdate", "cipher",
            {"pin input", "pin output", "CipherUpdate"}, {0, 16})
CBCFinalEncrypt ==
    Checked("CBCFinalEncrypt", "cipher",
            {"pin input", "pin output", "CipherUpdate", "CipherFinal_ex"}, {16})
GCMEncrypt ==
    Checked("GCMEncrypt", "cipher",
            {"CipherInit_ex", "SET_IVLEN", "pin", "CipherUpdate",
             "CipherFinal_ex", "GET_TAG"}, {0})
ChaCha20Init ==
    Checked("ChaCha20Init", "cipher",
            {"mode", "CipherInit_ex", "pin iv", "pin key"}, {0})
ChaCha20Update ==
    Checked("ChaCha20Update", "cipher",
            {"pin input", "pin output", "pin aad", "CipherUpdate"}, {0, 16})
ChaCha20FinalEncrypt ==
    Checked("ChaCha20FinalEncrypt", "cipher",
            {"pin output", "CipherFinal_ex", "GET_TAG"}, {0})

createRSAPublicKey ==
    Creates("createRSAPublicKey", "rsa", {"pin", "RSA_new", "RSA_set0_key"})
createRSAPrivateCrtKey ==
    Creates("createRSAPrivateCrtKey", "rsa", {"pin", "RSA_new", "RSA_set0_key"})

\* destroyRSAKey returns nothing: 0 stands for it.
destroyRSAKey ==
    /\ Callable
    /\ \E rsaKey \in {0} \cup Handles("rsa") :
         IF rsaKey # 0
         THEN Done("destroyRSAKey", <<rsaKey>>, <<>>, 0, <<rsaKey>>, <<>>, FALSE,
                   Free(heap, rsaKey))
         ELSE Done("destroyRSAKey", <<rsaKey>>, <<>>, 0, <<>>, <<>>, FALSE, heap)

\* RSAEP returns what RSA_public_decrypt returns: -1 or the length of the
\* message (lines 2334-2341).
RSAEP ==
    /\ Callable
    /\ \E publicRSAKey \in {0} \cup Handles("rsa"),
          failing \in {"none", "pin k", "pin m", "RSA_public_decrypt"} :
         Unchecked("RSAEP", <<publicRSAKey>>, failing, {"pin k", "pin m"},
                   0 - 1, 32)

\* The bytes of the model, and the strings of n of them.
Bytes == {0, 1}
ByteStrings(n) == [1..n -> Bytes]

\* The messages k Java passes to RSADP, kLen being their length.
RSAMessages == {<<1>>, <<0, 1>>}

\* With RSA_NO_PADDING the library writes as many bytes as it is given.
RSA_private_encrypt(kLen) == kLen

\* What k2 points to once RSA_public_decrypt has written the bytes written
\* to it: k2 is malloc(kLen) (line 2380), so that the cell at index kLen
\* lies behind the buffer and holds after.
K2Memory(kLen, written, after) ==
    [i \in 1..(kLen + 1) |->
        IF i <= kLen /\ i <= Len(written) THEN written[i] ELSE after]

\* Lines 2393-2411: the comparison of k with k2, cell i of the code being
\* cell i + 1 here.
RSADP_compare(kNative, kLen, verify, k2, msg_len) ==
    IF verify = kLen + 1
    THEN IF 0 # k2[1] THEN 0 - 2
         ELSE IF \E i \in 0..(kLen - 1) : kNative[i + 1] # k2[i + 2] THEN 0 - 2
         ELSE msg_len
    ELSE IF \E i \in 0..(verify - 1) : kNative[i + 1] # k2[i + 1] THEN 0 - 2
    ELSE msg_len

\* Lines 2378-2420, RSA_private_encrypt having returned msg_len.  When
\* verify is kLen + 1 the library writes, and the comparison reads, one byte
\* behind k2: the call traps, or it reads there whatever byte the memory
\* holds by then.
RSADP_verify(key, k, verify, msg_len) ==
    IF verify # Len(k) /\ verify # Len(k) + 1
    THEN Done("RSADP", <<key>>, <<k, verify, "none", <<>>, 0>>, 0 - 2, <<key>>,
              <<>>, FALSE, heap)
    ELSE \E failing \in {"none", "malloc", "RSA_public_decrypt"} :
           IF failing # "none"
           THEN Done("RSADP", <<key>>, <<k, verify, failing, <<>>, 0>>, 0 - 1,
                     <<key>>, <<>>, FALSE, heap)
           ELSE \E written \in ByteStrings(verify) :
                  IF verify <= Len(k)
                  THEN Done("RSADP", <<key>>, <<k, verify, failing, written, 0>>,
                            RSADP_compare(k, Len(k), verify,
                                          K2Memory(Len(k), written, 0), msg_len),
                            <<key>>, <<>>, FALSE, heap)
                  ELSE \E after \in Bytes, fault \in BOOLEAN :
                         Done("RSADP", <<key>>,
                              <<k, verify, failing, written, after>>,
                              IF fault THEN 0 - 1
                              ELSE RSADP_compare(k, Len(k), verify,
                                       K2Memory(Len(k), written, after), msg_len),
                              <<key>>, <<>>, fault, heap)

\* RSADP (lines 2352-2429): the key goes to RSA_private_encrypt with no
\* test, once k and m are pinned.
RSADP ==
    /\ Callable
    /\ \E privateRSAKey \in {0} \cup Handles("rsa"), k \in RSAMessages,
          failing \in {"none", "pin k", "pin m", "RSA_private_encrypt"} :
         \E verify \in {0 - 1, Len(k), Len(k) + 1, Len(k) + 2} :
           IF failing \in {"pin k", "pin m"}
           THEN Done("RSADP", <<privateRSAKey>>, <<k, verify, failing, <<>>, 0>>,
                     0 - 1, <<>>, <<>>, FALSE, heap)
           ELSE IF privateRSAKey = 0
           THEN LibraryGivenNull("RSADP", <<privateRSAKey>>,
                                 <<k, verify, failing, <<>>, 0>>,
                                 <<privateRSAKey>>, heap)
           ELSE IF failing = "RSA_private_encrypt"
           THEN Done("RSADP", <<privateRSAKey>>, <<k, verify, failing, <<>>, 0>>,
                     0 - 1, <<privateRSAKey>>, <<>>, FALSE, heap)
           ELSE IF verify = 0 - 1
           THEN Done("RSADP", <<privateRSAKey>>, <<k, verify, failing, <<>>, 0>>,
                     RSA_private_encrypt(Len(k)), <<privateRSAKey>>, <<>>, FALSE,
                     heap)
           ELSE RSADP_verify(privateRSAKey, k, verify,
                             RSA_private_encrypt(Len(k)))

ECEncodeGF ==
    Creates("ECEncodeGF", "ec", {"pin", "convertJavaBItoBN", "ECEncodeGFp"})
ECGenerateKeyPair ==
    Checked("ECGenerateKeyPair", "ec",
            {"pin", "EC_KEY_generate_key", "BN_CTX_new",
             "EC_POINT_get_affine_coordinates", "getArrayFromBN"}, {1})
ECDestroyKey ==
    /\ Callable
    /\ \E key \in {0} \cup Handles("ec") :
         IF key = 0
         THEN Done("ECDestroyKey", <<key>>, <<>>, 0 - 1, <<>>, <<>>, FALSE, heap)
         ELSE Done("ECDestroyKey", <<key>>, <<>>, 0, <<key>>, <<>>, FALSE,
                   Free(heap, key))

\* Lines 3003-3026: publicKey goes to EC_set_public_key once x and y are
\* pinned and converted.
ECCreatePublicKey ==
    /\ Callable
    /\ \E key \in {0} \cup Handles("ec"),
          failing \in {"none", "pin x", "pin y", "convertJavaBItoBN",
                       "EC_set_public_key"} :
         Unchecked("ECCreatePublicKey", <<key>>, failing,
                   {"pin x", "pin y", "convertJavaBItoBN"}, 0 - 1, 1)

\* Lines 3062-3080.
ECCreatePrivateKey ==
    /\ Callable
    /\ \E key \in {0} \cup Handles("ec"),
          failing \in {"none", "pin s", "convertJavaBItoBN",
                       "EC_KEY_set_private_key"} :
         Unchecked("ECCreatePrivateKey", <<key>>, failing,
                   {"pin s", "convertJavaBItoBN"}, 0 - 1, 1)

\* Lines 3406-3426: the public key goes to EC_KEY_get0_public_key and the
\* private key to ECDH_compute_key.
ECDeriveKey ==
    /\ Callable
    /\ \E publicKey \in {0} \cup Handles("ec"), privateKey \in {0} \cup Handles("ec"),
          failing \in {"none", "pin secret", "EC_KEY_get0_public_key",
                       "ECDH_compute_key"} :
         Unchecked("ECDeriveKey", <<publicKey, privateKey>>, failing,
                   {"pin secret"}, 0 - 1, 1)

\* Lines 3572-3587: the key goes to ECDSA_do_sign once the digest is pinned;
\* the result is sigLen.
ECDSASign ==
    /\ Callable
    /\ \E key \in {0} \cup Handles("ec"),
          failing \in {"none", "pin digest", "ECDSA_do_sign", "pin sig",
                       "getArrayFromBN"} :
         Unchecked("ECDSASign", <<key>>, failing, {"pin digest"}, 0 - 1, 64)

\* Lines 3638-3661: ECDSAVerify returns what ECDSA_do_verify returns: 1 for
\* a valid signature, 0 for an invalid one, -1 for an error.
ECDSAVerify ==
    /\ Callable
    /\ \E key \in {0} \cup Handles("ec"), valid \in {0, 1},
          failing \in {"none", "pin sig", "ECDSA_SIG_set0", "pin digest",
                       "ECDSA_do_verify"} :
         Unchecked("ECDSAVerify", <<key>>, failing,
                   {"pin sig", "ECDSA_SIG_set0", "pin digest"}, 0 - 1, valid)

(***************************************************************************)
(* GCMDecrypt (lines 1937-2069) and ChaCha20FinalDecrypt (lines 2762-2839).*)
(* The library's calls return 1 when they succeed and 0 when they fail;    *)
(* the final call fails when the tag set before it is not the tag of what  *)
(* was decrypted.  Java passes an input that holds at least the tag.  The  *)
(* argument failing names the call or the array that fails.                *)
(***************************************************************************)
\* The call named step returns 0 if it is the failing one, 1 otherwise; the
\* pinning of an array returns NULL if it is.
LibraryCall(failing, step) == IF failing = step THEN 0 ELSE 1
Pinned(failing, array) == IF failing = array THEN NULL ELSE array

\* The lengths Java passes, as aadLen, inLen and tagLen: a tag alone with
\* no additional data, and a tag after one byte with additional data.
DecryptLengths == {<<0, 1, 1>>, <<1, 2, 1>>}

\* The final step takes a failed tag check for every other error.
GCMDecrypt_final_generic(final, plaintext_len, len) ==
    IF 0 < final THEN plaintext_len + len ELSE 0 - 1

\* Lines 2042-2049: final is what EVP_DecryptFinal returned, len what it
\* wrote.
GCMDecrypt_final(final, plaintext_len, len) ==
    IF 0 < final THEN plaintext_len + len ELSE 0 - 2

\* Lines 2017-2040, from the pinning of the output on: len is what the last
\* EVP_DecryptUpdate has written.
GCMDecrypt_data(failing, len, inLen, tagLen) ==
    IF NULL = Pinned(failing, "output") THEN 0 - 1
    ELSE IF inLen > 0 /\ NULL = Pinned(failing, "input") THEN 0 - 1
    ELSE IF inLen - tagLen > 0 /\ 0 = LibraryCall(failing, "DecryptUpdate")
    THEN 0 - 1
    ELSE IF 0 = LibraryCall(failing, "SET_TAG") THEN 0 - 1
    ELSE GCMDecrypt_final(LibraryCall(failing, "DecryptFinal"),
                          IF inLen - tagLen > 0 THEN inLen - tagLen ELSE 0, 0)

\* Lines 1960-2015: the cipher, the length of the IV, the key and the IV,
\* and the additional data.
GCMDecrypt_ret(newKeyLen, newIVLen, failing, aadLen, inLen, tagLen) ==
    IF newKeyLen /\ 1 # LibraryCall(failing, "CipherInit_ex") THEN 0 - 1
    ELSE IF newIVLen /\ 1 # LibraryCall(failing, "SET_IVLEN") THEN 0 - 1
    ELSE IF NULL = Pinned(failing, "key") THEN 0 - 1
    ELSE IF NULL = Pinned(failing, "iv") THEN 0 - 1
    ELSE IF 0 = LibraryCall(failing, "DecryptInit_ex") THEN 0 - 1
    ELSE IF aadLen > 0 /\ NULL = Pinned(failing, "aad") THEN 0 - 1
    ELSE IF aadLen > 0 /\ 0 = LibraryCall(failing, "DecryptUpdate aad")
    THEN 0 - 1
    ELSE GCMDecrypt_data(failing, IF aadLen > 0 THEN aadLen ELSE 0, inLen,
                         tagLen)

GCMDecryptFailures ==
    {"none", "CipherInit_ex", "SET_IVLEN", "key", "iv", "DecryptInit_ex", "aad",
     "DecryptUpdate aad", "output", "input", "DecryptUpdate", "SET_TAG",
     "DecryptFinal"}

GCMDecrypt ==
    /\ Callable
    /\ \E context \in {0} \cup Handles("cipher"), newKeyLen \in BOOLEAN,
          newIVLen \in BOOLEAN, lengths \in DecryptLengths,
          failing \in GCMDecryptFailures :
         IF context = 0
         THEN Done("GCMDecrypt", <<context>>,
                   <<newKeyLen, newIVLen, lengths, failing>>,
                   0 - 1, <<>>, <<>>, FALSE, heap)
         ELSE Done("GCMDecrypt", <<context>>,
                   <<newKeyLen, newIVLen, lengths, failing>>,
                   GCMDecrypt_ret(newKeyLen, newIVLen, failing, lengths[1],
                                  lengths[2], lengths[3]),
                   <<context>>, <<>>, FALSE, heap)

\* Lines 2824-2838: ret is what EVP_CipherFinal_ex returned.
ChaCha20FinalDecrypt_final(final, plaintext_len, len) ==
    IF final > 0 THEN plaintext_len + len ELSE 0 - 2

\* Lines 2779-2822.
ChaCha20FinalDecrypt_ret(failing, aadLen, inputLen, tagLen) ==
    IF NULL = Pinned(failing, "input") THEN 0 - 1
    ELSE IF NULL = Pinned(failing, "output") THEN 0 - 1
    ELSE IF NULL = Pinned(failing, "aad") THEN 0 - 1
    ELSE IF 0 = LibraryCall(failing, "DecryptUpdate aad") THEN 0 - 1
    ELSE IF 0 = LibraryCall(failing, "DecryptUpdate") THEN 0 - 1
    ELSE IF 1 # LibraryCall(failing, "SET_TAG") THEN 0 - 1
    ELSE ChaCha20FinalDecrypt_final(LibraryCall(failing, "CipherFinal_ex"),
                                    inputLen - tagLen, 0)

ChaChaDecryptFailures ==
    {"none", "input", "output", "aad", "DecryptUpdate aad", "DecryptUpdate",
     "SET_TAG", "CipherFinal_ex"}

ChaCha20FinalDecrypt ==
    /\ Callable
    /\ \E c \in {0} \cup Handles("cipher"), lengths \in DecryptLengths,
          failing \in ChaChaDecryptFailures :
         IF c = 0
         THEN Done("ChaCha20FinalDecrypt", <<c>>, <<lengths, failing>>,
                   0 - 1, <<>>, <<>>, FALSE, heap)
         ELSE Done("ChaCha20FinalDecrypt", <<c>>, <<lengths, failing>>,
                   ChaCha20FinalDecrypt_ret(failing, lengths[1], lengths[2],
                                            lengths[3]),
                   <<c>>, <<>>, FALSE, heap)

(***************************************************************************)
(* The launcher's restore from a checkpoint (criuhelpers.c).  A C string   *)
(* is the sequence of its characters, followed by NUL.                     *)
(***************************************************************************)
NUL == ""
CharAt(s, i) == IF i > Len(s) THEN NUL ELSE s[i]

\* strncmp(s1, s2, n) from character i on: 0 when the strings are equal up
\* to n characters or to their end, 1 for any other result.
RECURSIVE strncmp(_, _, _, _)
strncmp(s1, s2, n, i) ==
    IF i > n THEN 0
    ELSE IF CharAt(s1, i) # CharAt(s2, i) THEN 1
    ELSE IF CharAt(s1, i) = NUL THEN 0
    ELSE strncmp(s1, s2, n, i + 1)

\* What a getter leaves: *error, and the string it returns (null is TRUE
\* for NULL).
OptionValue(error, null, value) ==
    [error |-> error, null |-> null, value |-> value]

\* Lines 51-61: arg begins with optionName, equals is arg + optionNameLength.
OptionFound(arg, equals) ==
    IF "=" = CharAt(arg, equals)
    THEN OptionValue(0, NUL = CharAt(arg, equals + 1),
                     SubSeq(arg, equals + 1, Len(arg)))
    ELSE OptionValue(0, TRUE, <<>>)

\* The test of line 50 alone: any argument that begins with optionName.
OptionLoop_test_anyPrefix(arg, optionName) ==
    0 = strncmp(arg, optionName, Len(optionName), 1)

\* The test of lines 50-52 on an argument.
OptionLoop_test(arg, optionName) ==
    /\ 0 = strncmp(arg, optionName, Len(optionName), 1)
    /\ CharAt(arg, Len(optionName) + 1) \in {"=", NUL}

\* The loop of lines 48-64 from index i down; argv[i] is args[i + 1].
RECURSIVE OptionLoop(_, _, _)
OptionLoop(optionName, args, i) ==
    IF i < 0 THEN OptionValue(0 - 1, TRUE, <<>>)
    ELSE IF OptionLoop_test(args[i + 1], optionName)
    THEN OptionFound(args[i + 1], Len(optionName) + 1)
    ELSE OptionLoop(optionName, args, i - 1)

getCommandLineOptionValue(optionName, argc, args) ==
    OptionLoop(optionName, args, argc - 1)

Name_CRaCRestoreFrom ==
    <<"-", "X", "X", ":", "C", "R", "a", "C", "R", "e", "s", "t", "o", "r", "e",
      "F", "r", "o", "m">>
Prefix_criu ==
    <<"-", "D", "o", "p", "e", "n", "j", "9", ".", "i", "n", "t", "e", "r", "n",
      "a", "l", ".", "c", "r", "i", "u", ".">>
Name_logLevel == Prefix_criu \o <<"l", "o", "g", "L", "e", "v", "e", "l">>
Name_unprivilegedMode ==
    Prefix_criu \o <<"u", "n", "p", "r", "i", "v", "i", "l", "e", "g", "e", "d",
                     "M", "o", "d", "e">>
Name_logFile == Prefix_criu \o <<"l", "o", "g", "F", "i", "l", "e">>

\* Lines 80-87, v being what getCommandLineOptionValue left.
Required(v) == IF v.error = 0 /\ v.null THEN OptionValue(0 - 2, TRUE, <<>>) ELSE v

getCheckpointDirectory(argc, args) ==
    Required(getCommandLineOptionValue(Name_CRaCRestoreFrom, argc, args))

getLogFile(argc, args) ==
    Required(getCommandLineOptionValue(Name_logFile, argc, args))

\* Lines 144-153: <<*error, isUnprivilegedModeOn>>.
UnprivilegedMode(v) ==
    IF v.error # 0 THEN <<v.error, FALSE>>
    ELSE IF v.null THEN <<0, TRUE>>
    ELSE <<0 - 2, FALSE>>

isUnprivilegedModeOn(argc, args) ==
    UnprivilegedMode(getCommandLineOptionValue(Name_unprivilegedMode, argc, args))

\* atoi on a string of digits.  An int holds INT_MIN..INT_MAX; the number
\* read before character i is acc.  The result is Overflow when the number
\* is above INT_MAX.
INT_MAX == Pow2(30) - 1 + Pow2(30)
Overflow == 0 - 1
RECURSIVE atoi_digits(_, _, _)
atoi_digits(s, i, acc) ==
    IF i > Len(s) THEN acc
    ELSE IF acc > (INT_MAX - DigitVal(s[i])) \div 10 THEN Overflow
    ELSE atoi_digits(s, i + 1, 10 * acc + DigitVal(s[i]))

\* The number s denotes modulo 2^32, as <<high, low>> halves of 16 bits.
RECURSIVE Wrapped(_, _, _, _)
Wrapped(s, i, high, low) ==
    IF i > Len(s) THEN <<high, low>>
    ELSE Wrapped(s, i + 1,
                 (10 * high + ((10 * low + DigitVal(s[i])) \div 65536)) % 65536,
                 (10 * low + DigitVal(s[i])) % 65536)

\* The int whose 32 bits are the halves w.
IntOfHalves(w) ==
    IF w[1] >= 32768 THEN (w[1] - 65536) * 65536 + w[2] ELSE w[1] * 65536 + w[2]

\* atoi(s) on digits: the behaviour is undefined when the number cannot be
\* represented.  The C libraries in use convert with strtol and cast the
\* long to int, which keeps the low 32 bits, or stop at INT_MAX.
OverflowOutcomes == {"wrap", "saturate"}
atoi(s, outcome) ==
    IF atoi_digits(s, 1, 0) # Overflow THEN atoi_digits(s, 1, 0)
    ELSE IF outcome = "wrap" THEN IntOfHalves(Wrapped(s, 1, 0, 0))
    ELSE INT_MAX

\* Lines 114-119 of getLogLevel: <<*error, logLevelValue>>.
LogLevelOf(logLevelValue) ==
    IF (0 <= logLevelValue) /\ (logLevelValue <= 4) THEN <<0, logLevelValue>>
    ELSE <<0 - 2, logLevelValue>>

\* Lines 104-129, v being what getCommandLineOptionValue left.
LogLevel(v, outcome) ==
    IF v.error = 0 - 1 THEN <<0 - 1, 2>>
    ELSE IF v.null THEN <<0, 2>>
    ELSE IF \E i \in 1..Len(v.value) : ~isdigit(v.value[i]) THEN <<0 - 2, 2>>
    ELSE LogLevelOf(atoi(v.value, outcome))

getLogLevel(argc, args, outcome) ==
    LogLevel(getCommandLineOptionValue(Name_logLevel, argc, args), outcome)

\* restoreFromCheckpoint (lines 189-228): -1 when it returns, and 0, which
\* its comment gives for success, when execvp has replaced the process with
\* criu.  The option --log-file is allocated and formatted only when there
\* is a log file.
restoreFromCheckpoint(logFile, failing) ==
    IF ~logFile.null /\ failing \in {"JLI_MemAlloc", "snprintf"} THEN 0 - 1
    ELSE IF failing = "execvp" THEN 0 - 1
    ELSE 0

\* Where a process is: pc is "none" for a process that does not exist,
\* "called" for the launcher about to call handleCRaCRestore, "returned"
\* after it has returned from it, "waitpid" inside waitpid, "forked" for the
\* child fork has made, "criu" after execvp, "exited" after exit and
\* "signaled" for a process a signal has ended; status is what exit was
\* given, as the parent reads it.
At(pc, status) == [pc |-> pc, status |-> status]
EXIT_SUCCESS == 0
EXIT_FAILURE == 1
Exited(status) == At("exited", status % 256)

Launched == [p \in {"launcher", "child"} |->
                IF p = "launcher" THEN At("called", 0) ELSE At("none", 0)]

Unreported == reported = <<>> /\ criuArgs = <<>>
IdleLauncher == argv = <<>> /\ proc = Launched /\ Unreported

\* Lines 248-262 with the test on -2 left out.
AfterDirectory_returning(error, forked) ==
    IF error # 0
    THEN [Launched EXCEPT !["launcher"] = At("returned", 0)]
    ELSE [Launched EXCEPT !["launcher"] = At("waitpid", 0),
                          !["child"] = IF forked THEN At("forked", 0) ELSE @]

\* Lines 248-262: what the launcher does with the error that
\* getCheckpointDirectory left; fork makes the child, or fails.
AfterDirectory(error, forked) ==
    IF 0 - 1 = error
    THEN [Launched EXCEPT !["launcher"] = At("returned", 0)]
    ELSE IF 0 - 2 = error
    THEN [Launched EXCEPT !["launcher"] = Exited(EXIT_FAILURE)]
    ELSE [Launched EXCEPT !["launcher"] = At("waitpid", 0),
                          !["child"] = IF forked THEN At("forked", 0) ELSE @]

\* Lines 85 and 254: what is written when the option has no value.
DirectoryReport(error) ==
    IF 0 - 2 = error
    THEN <<"The value of the command line option -XX:CRaCRestoreFrom was not found.",
           "Failed to get the CRIU checkpoint directory.">>
    ELSE <<>>

handleCRaCRestore ==
    /\ proc["launcher"].pc = "called"
    /\ \E forked \in BOOLEAN :
         proc' = AfterDirectory(getCheckpointDirectory(Len(argv), argv).error,
                                forked)
    /\ reported' = reported
                    \o DirectoryReport(getCheckpointDirectory(Len(argv), argv).error)
    /\ UNCHANGED <<argv, criuArgs, loaderVars, lockVars, handleVars, pollVars>>

\* Line 282 and 284: the child after restoreFromCheckpoint.
ChildRestored(r) == IF r = 0 THEN At("criu", 0) ELSE Exited(r)

\* Lines 264-284: the child.
ChildProcess(args, failing, outcome) ==
    IF 0 - 2 = getLogLevel(Len(args), args, outcome)[1]
    THEN Exited(EXIT_FAILURE)
    ELSE IF 0 - 2 = isUnprivilegedModeOn(Len(args), args)[1]
    THEN Exited(EXIT_FAILURE)
    ELSE IF 0 - 2 = getLogFile(Len(args), args).error
    THEN Exited(EXIT_FAILURE)
    ELSE ChildRestored(restoreFromCheckpoint(getLogFile(Len(args), args), failing))

\* The characters of the words of the command.
Word_criu == <<"c", "r", "i", "u">>
Word_restore == <<"r", "e", "s", "t", "o", "r", "e">>
Word_D == <<"-", "D">>
Word_v == <<"-", "v">>
Word_shell_job == <<"-", "-", "s", "h", "e", "l", "l", "-", "j", "o", "b">>
Word_unprivileged ==
    <<"-", "-", "u", "n", "p", "r", "i", "v", "i", "l", "e", "g", "e", "d">>
Word_log_file == <<"-", "-", "l", "o", "g", "-", "f", "i", "l", "e", "=">>

\* %d of a number that is not negative.
RECURSIVE Decimal(_)
Decimal(n) ==
    IF n < 10 THEN <<DigitChars[n + 1]>>
    ELSE Append(Decimal(n \div 10), DigitChars[(n % 10) + 1])

\* snprintf(str, size, ...): the text, cut to size - 1 characters.
snprintf(size, text) == SubSeq(text, 1, IF Len(text) < size THEN Len(text) ELSE size - 1)

\* Lines 193-217 of restoreFromCheckpoint: the arguments criu is started
\* with.
criuCommand(checkpointDirectory, logLevel, unprivilegedModeOn, logFile) ==
    <<Word_criu, Word_restore, Word_D, checkpointDirectory,
      snprintf(4, Word_v \o Decimal(logLevel)), Word_shell_job>>
    \o (IF unprivilegedModeOn THEN <<Word_unprivileged>> ELSE <<>>)
    \o (IF ~logFile.null THEN <<Word_log_file \o logFile.value>> ELSE <<>>)

\* Lines 208-215: what restoreFromCheckpoint writes when it fails.
RestoreReport(logFile, failing) ==
    IF ~logFile.null /\ failing = "JLI_MemAlloc"
    THEN <<"Failed to allocate memory for option '--log-file=%s'.">>
    ELSE IF ~logFile.null /\ failing = "snprintf"
    THEN <<"Failed to format option '--log-file=%s'.">>
    ELSE <<>>

\* Lines 264-284: what the child writes.
ChildReport(args, failing, outcome) ==
    IF 0 - 2 = getLogLevel(Len(args), args, outcome)[1]
    THEN <<"The option '-Dopenj9.internal.criu.logLevel=%s' is not valid.",
           "Failed to get the CRIU log level.">>
    ELSE IF 0 - 2 = isUnprivilegedModeOn(Len(args), args)[1]
    THEN <<"The option '-Dopenj9.internal.criu.unprivilegedMode=%s' does not accept a value.",
           "Failed to get the CRIU unprivileged mode.">>
    ELSE IF 0 - 2 = getLogFile(Len(args), args).error
    THEN <<"The option -Dopenj9.internal.criu.logFile requires a value.",
           "Failed to get the CRIU log file.">>
    ELSE RestoreReport(getLogFile(Len(args), args), failing)

\* Line 282: the command the child gives to restoreFromCheckpoint.
ChildCommand(args, outcome) ==
    criuCommand(getCheckpointDirectory(Len(args), args).value,
                getLogLevel(Len(args), args, outcome)[2],
                isUnprivilegedModeOn(Len(args), args)[2],
                getLogFile(Len(args), args))

handleCRaCRestore_child ==
    /\ proc["child"].pc = "forked"
    /\ \E failing \in {"none", "JLI_MemAlloc", "snprintf", "execvp"},
          outcome \in OverflowOutcomes :
         /\ proc' = [proc EXCEPT
                        !["child"] = ChildProcess(argv, failing, outcome)]
         /\ reported' = reported \o ChildReport(argv, failing, outcome)
         /\ criuArgs' = IF proc'["child"].pc = "criu"
                        THEN ChildCommand(argv, outcome)
                        ELSE criuArgs
    /\ UNCHANGED <<argv, loaderVars, lockVars, handleVars, pollVars>>

\* criu ends: it exits, or a signal ends it.
criu ==
    /\ proc["child"].pc = "criu"
    /\ \E end \in {Exited(0), Exited(1), At("signaled", 9)} :
         proc' = [proc EXCEPT !["child"] = end]
    /\ UNCHANGED <<argv, reported, criuArgs, loaderVars, lockVars, handleVars,
                   pollVars>>

\* Lines 287-301 on what waitpid left in childProcessPidStatus, which
\* is 0 before the call.
ParentExit(child) ==
    IF child.pc = "signaled" THEN Exited(EXIT_FAILURE)
    ELSE IF EXIT_SUCCESS = child.status THEN Exited(EXIT_SUCCESS)
    ELSE Exited(EXIT_FAILURE)

\* waitpid returns in the parent, when the child has ended or when there is
\* no child to wait for, and the parent goes on to exit (lines 286-301).
\* Lines 287-298: what the parent writes.
ParentReport(child) ==
    IF child.pc = "signaled" THEN <<"The CRIU restore child process failed.">>
    ELSE IF EXIT_SUCCESS = child.status
    THEN <<"Completed restore with -XX:CRaCRestoreFrom=PATH.">>
    ELSE <<"Failed to restore from checkpoint, error=%d.">>

handleCRaCRestore_parent ==
    /\ proc["launcher"].pc = "waitpid"
    /\ proc["child"].pc \in {"none", "exited", "signaled"}
    /\ proc' = [proc EXCEPT !["launcher"] = ParentExit(proc["child"])]
    /\ reported' = reported \o ParentReport(proc["child"])
    /\ UNCHANGED <<argv, criuArgs, loaderVars, lockVars, handleVars, pollVars>>

\* The getters called on the command line.
OptionNames ==
    {Name_CRaCRestoreFrom, Name_logLevel, Name_unprivilegedMode, Name_logFile}

Call_getCommandLineOptionValue ==
    \E optionName \in OptionNames :
        Done("getCommandLineOptionValue", <<>>, <<optionName>>,
             getCommandLineOptionValue(optionName, Len(argv), argv).error, <<>>,
             <<getCommandLineOptionValue(optionName, Len(argv), argv).null,
               getCommandLineOptionValue(optionName, Len(argv), argv).value>>,
             FALSE, heap)

Call_getLogLevel ==
    \E outcome \in OverflowOutcomes :
        Done("getLogLevel", <<>>, <<>>, getLogLevel(Len(argv), argv, outcome)[2],
             <<>>, <<getLogLevel(Len(argv), argv, outcome)[1]>>, FALSE, heap)

\* The arguments of the command lines of the model.
MaxArgs == 2
Args ==
    { Name_CRaCRestoreFrom \o <<"=", "c">>,
      Name_CRaCRestoreFrom,
      Name_CRaCRestoreFrom \o <<"=">>,
      Name_CRaCRestoreFrom \o <<"X">>,
      Name_logLevel \o <<"=", "3">>,
      Name_logLevel \o <<"=", "5">>,
      Name_logLevel \o <<"=", "x">>,
      Name_logLevel \o <<"=", "0", "4">>,
      Name_logLevel \o <<"=", "4", "2", "9", "4", "9", "6", "7", "2", "9", "6">>,
      Name_logLevel,
      Name_unprivilegedMode,
      Name_unprivilegedMode \o <<"=", "1">>,
      Name_logFile \o <<"=", "f">>,
      Name_logFile }
CommandLines == UNION {[1..n -> Args] : n \in 0..MaxArgs}

(***************************************************************************)
(* convertJavaBItoBN (lines 2435-2457).  A BIGNUM is the pair of its sign, *)
(* 1 when it is negative, and its magnitude; an unsigned char holds        *)
(* 0..255.                                                                 *)
(***************************************************************************)
MaxBNLen == 2
NULL_BN == <<>>

\* in[i] ^= 0xff
FlipByte_kept(b) == b
FlipByte(b) == 255 - b

\* ++in[i] on an unsigned char
IncByte(b) == (b + 1) % 256

\* The loop of lines 2445-2450 from index i down, c being the carry; index
\* i of the code is index i + 1 here.
RECURSIVE Magnitude(_, _, _)
Magnitude(in, i, c) ==
    IF i < 0 THEN in
    ELSE IF c # 0
    THEN Magnitude([in EXCEPT ![i + 1] = IncByte(FlipByte(in[i + 1]))], i - 1,
                   IF 0 = IncByte(FlipByte(in[i + 1])) THEN 1 ELSE 0)
    ELSE Magnitude([in EXCEPT ![i + 1] = FlipByte(in[i + 1])], i - 1, c)

\* BN_bin2bn reads len bytes as a big-endian number; acc is the number read
\* before byte i.
RECURSIVE BN_bin2bn(_, _, _, _)
BN_bin2bn(s, len, i, acc) ==
    IF i > len THEN acc ELSE BN_bin2bn(s, len, i + 1, 256 * acc + s[i])

\* BN_set_negative makes a number other than zero negative when n is not 0.
BN_set_negative(magnitude, n) ==
    <<IF n # 0 /\ magnitude # 0 THEN 1 ELSE 0, magnitude>>

\* Lines 2452-2456, in being the bytes after the loop.
BNOf(in, len, neg, failing) ==
    IF failing THEN NULL_BN
    ELSE BN_set_negative(BN_bin2bn(in, len, 1, 0), neg)

\* The bytes in points to when convertJavaBItoBN returns.
BytesLeft(in, len) ==
    IF 0 # BitAnd(in[1], 128) THEN Magnitude(in, len - 1, 1) ELSE in

\* The byte arrays given to convertJavaBItoBN.
BNBytes == {0, 1, 2, 127, 128, 129, 254, 255}
BNInputs == UNION {[1..len -> BNBytes] : len \in 1..MaxBNLen}

\* convertJavaBItoBN(in, len): BN_bin2bn returns NULL when failing.
convertJavaBItoBN ==
    /\ Callable
    /\ \E in \in BNInputs, failing \in BOOLEAN :
         Done("convertJavaBItoBN", <<>>, <<in>>, 0, <<>>,
              <<BNOf(BytesLeft(in, Len(in)), Len(in), BitAnd(in[1], 128), failing),
                BytesLeft(in, Len(in))>>,
              FALSE, heap)

(***************************************************************************)
(* The libraries installed on the machine.                                 *)
(***************************************************************************)
RECURSIVE DecChars(_)
DecChars(n) ==
    IF n < 10 THEN <<DigitChars[n + 1]>>
    ELSE DecChars(n \div 10) \o <<DigitChars[(n % 10) + 1]>>

\* The text "OpenSSL <major>.<minor>.<fix><suffix>".
Banner(major, minor, fix, suffix) ==
    BannerChars \o <<" ">> \o DecChars(major) \o <<".">> \o DecChars(minor)
        \o <<".">> \o DecChars(fix) \o suffix

MaxMajor == 4
MaxLocks == 2

Suffixes == {<<>>, <<"a">>, <<"u">>, <<"Z">>, <<"-", "f", "i", "p", "s">>,
             <<" ", "3", "0", " ", "J", "a", "n">>}

\* Texts that do not have the form above.
OtherBanners ==
    { <<>>,
      BannerChars,
      BannerChars \o <<" ">>,
      BannerChars \o <<" ", "1">>,
      BannerChars \o <<" ", "1", ".", "1">>,
      BannerChars \o <<" ", "1", ".", "1", ".">>,
      BannerChars \o <<" ", "1", ".", "x", ".", "1">>,
      BannerChars \o <<"1", ".", "1", ".", "1">>,
      BannerChars \o <<" ", " ", "3", ".", " ", "0", ".", "2">>,
      BannerChars \o <<" ", "1", ".", "2", "5", "6", ".", "0">>,
      <<"o", "p", "e", "n", "s", "s", "l", " ", "1", ".", "1", ".", "1">>,
      <<"L", "i", "b", "r", "e", "S", "S", "L", " ", "2", ".", "8", ".", "3">> }

VersionStrings ==
    {Banner(major, minor, fix, suffix) :
        major \in 0..MaxMajor, minor \in {0, 1, 2}, fix \in {0, 1, 13},
        suffix \in Suffixes}
    \cup OtherBanners

\* extractVersionToJlong called on a version text.
extractVersion ==
    \E astring \in VersionStrings \cup {Banner(1, 2, 3, <<"d">>)} :
        Done("extractVersionToJlong", <<>>, <<astring>>,
             extractVersionToJlong(astring), <<>>, <<>>, FALSE, heap)

(***************************************************************************)
(* PollsetArrayWrapper.c: the pollset calls of the AIX selector.  A script *)
(* is what the operating system answers to the first, second, ... call of  *)
(* one entry; an entry uses as much of it as it makes calls.               *)
(***************************************************************************)
MaxCalls == 3
MaxCount == 3
MaxPolls == 2
MaxTimeout == 2

Errnos == {"EINTR", "EBADF", "ENOENT", "EINVAL", "EPERM", "EIO"}
BulkErrnos == {"EINTR", "EIO"}

Answer(res, errno) == [res |-> res, errno |-> errno]

Scripted(arg, script) == [arg |-> arg, script |-> script]
IdlePollset == pollset = Scripted(0, <<>>)

\* Lines 39-43: the call is made again while it returns -1 with EINTR.  The
\* result says how many calls were made, and whether the script had an answer
\* to each.
RECURSIVE RESTARTABLE(_, _)
RESTARTABLE(script, i) ==
    IF i > Len(script)
    THEN [res |-> 0, errno |-> "EINTR", calls |-> i - 1, answered |-> FALSE]
    ELSE IF script[i].res = 0 - 1 /\ script[i].errno = "EINTR"
         THEN RESTARTABLE(script, i + 1)
         ELSE [res |-> script[i].res, errno |-> script[i].errno, calls |-> i,
               answered |-> TRUE]

\* Lines 185 and 229 with the test on res alone.
Throws_anyFailure(res, errno) ==
    IF res < 0 THEN "IOException" ELSE "none"

\* Lines 185-187 and 229-231.
Throws(res, errno) ==
    IF res < 0 /\ errno # "EBADF" /\ errno # "ENOENT" /\ errno # "EINVAL"
       /\ errno # "EPERM"
    THEN "IOException"
    ELSE "none"

\* pollset_ctl on one element returns 0 or -1; errno after a call that
\* succeeded is whatever it was.
CtlAnswers ==
    {Answer(0 - 1, errno) : errno \in Errnos}
    \cup {Answer(0, errno) : errno \in BulkErrnos}
CtlScripts == UNION {[1..n -> CtlAnswers] : n \in 1..MaxCalls}

\* Lines 161-188.
pollsetCtl ==
    LET r == RESTARTABLE(pollset.script, 1) IN
    /\ r.answered
    /\ Done("pollsetCtl", <<>>, pollset.script, r.res, <<>>,
            <<r.calls, Throws(r.res, r.errno)>>, FALSE, heap)

\* sizeof(struct pollfd): an int and two shorts; sizeof(struct poll_ctl): two
\* shorts and an int.
POLLFD_SIZE == 8
POLL_CTL_SIZE == 8

\* The elements pollset_ctl is given: those of the array from the one at
\* address on, count of them.
Submitted(address, count) ==
    [first |-> address \div POLL_CTL_SIZE, count |-> count,
     aligned |-> address % POLL_CTL_SIZE = 0]

\* Line 222 with the problem element left in.
Beyond_problem(res) == IF res = 0 - 1 THEN 1 ELSE res

\* Lines 218-219 and 222-223: how many elements are dropped from the front.
Beyond(res) == IF res = 0 - 1 THEN 1 ELSE res + 1

\* Lines 208-226: the loop from its i-th call on; calls are the calls made
\* so far.
RECURSIVE BulkLoop(_, _, _, _, _, _, _)
BulkLoop(address, count, res, errno, script, i, calls) ==
    IF ~(count > 0)
    THEN [res |-> res, errno |-> errno, calls |-> calls, answered |-> TRUE]
    ELSE IF i > Len(script) \/ ~(script[i].res < count)
    THEN [res |-> res, errno |-> errno, calls |-> calls, answered |-> FALSE]
    ELSE LET made == Append(calls, Submitted(address, count)) IN
         IF script[i].res = 0
         THEN [res |-> 0, errno |-> script[i].errno, calls |-> made,
               answered |-> TRUE]
         ELSE IF script[i].res = 0 - 1 /\ script[i].errno = "EINTR"
         THEN BulkLoop(address, count, script[i].res, script[i].errno,
                       script, i + 1, made)
         ELSE BulkLoop(address + Beyond(script[i].res) * POLLFD_SIZE,
                       count - Beyond(script[i].res),
                       script[i].res, script[i].errno, script, i + 1, made)

\* pollset_ctl on an array returns 0, -1 or the index of the problem element.
BulkAnswers ==
    {Answer(0 - 1, errno) : errno \in BulkErrnos \cup {"EBADF"}}
    \cup {Answer(res, "EIO") : res \in 0..(MaxCount - 1)}
BulkScripts == UNION {[1..n -> BulkAnswers] : n \in 0..MaxCalls}

\* Lines 190-232.
pollsetBulkCtl ==
    \E errno \in BulkErrnos :
        LET r == BulkLoop(0, pollset.arg, 0, errno, pollset.script, 1, <<>>) IN
        /\ r.answered
        /\ Done("pollsetBulkCtl", <<>>, <<pollset.arg, pollset.script>>, r.res,
                <<>>, <<r.calls, Throws(r.res, r.errno)>>, FALSE, heap)

\* What one call of pollset_poll does: its result, how long it blocked, and
\* whether the clock was set back while it did.
Attempt(res, errno, blocked, back) ==
    [res |-> res, errno |-> errno, blocked |-> blocked, back |-> back]

\* pollset_poll with a timeout blocks no longer than the timeout, and returns
\* 0 when the timeout has passed; without one it returns when something
\* happened.
Blocks(attempt, timeout) ==
    IF timeout < 0
    THEN attempt.res # 0
    ELSE /\ attempt.blocked <= timeout
         /\ attempt.res = 0 => attempt.blocked = timeout

\* Lines 88-90: the time of day read again, less the one read before.
Diff(attempt) == IF attempt.back THEN 0 - 1 ELSE attempt.blocked

\* Line 85: the timeout every call of pollset_poll is given.
Passed(timeout, remaining) == timeout

\* Lines 84-100: the loop from its i-th call on.
RECURSIVE iepoll_loop(_, _, _, _, _)
iepoll_loop(timeout, remaining, script, i, blocked) ==
    IF i > Len(script) \/ ~Blocks(script[i], Passed(timeout, remaining))
    THEN [res |-> 0, errno |-> "EINTR", calls |-> i - 1, blocked |-> blocked,
          answered |-> FALSE]
    ELSE IF script[i].res < 0 /\ script[i].errno = "EINTR"
    THEN IF remaining >= 0
         THEN IF Diff(script[i]) < 0 \/ remaining - Diff(script[i]) <= 0
              THEN [res |-> 0, errno |-> "EINTR", calls |-> i,
                    blocked |-> blocked + script[i].blocked, answered |-> TRUE]
              ELSE iepoll_loop(timeout, remaining - Diff(script[i]), script,
                               i + 1, blocked + script[i].blocked)
         ELSE iepoll_loop(timeout, remaining, script, i + 1,
                          blocked + script[i].blocked)
    ELSE [res |-> script[i].res, errno |-> script[i].errno, calls |-> i,
          blocked |-> blocked + script[i].blocked, answered |-> TRUE]

\* Lines 73-101.
iepoll(timeout, script) == iepoll_loop(timeout, timeout, script, 1, 0)

\* The time the first n calls of a script blocked.
RECURSIVE BlockedIn(_, _)
BlockedIn(script, n) ==
    IF n = 0 THEN 0 ELSE BlockedIn(script, n - 1) + script[n].blocked

\* Line 245: every call is given the same timeout.
Restarted(timeout, script) ==
    LET r == RESTARTABLE(script, 1) IN
    [res |-> r.res, errno |-> r.errno, calls |-> r.calls,
     blocked |-> BlockedIn(script, r.calls),
     answered |-> r.answered
                  /\ \A j \in 1..r.calls : Blocks(script[j], timeout)]

\* errno is read only after a call that failed, and the time of day only
\* after one that failed with EINTR.
PollAnswers ==
    {Attempt(0 - 1, "EINTR", blocked, back) :
        blocked \in 0..MaxTimeout, back \in BOOLEAN}
    \cup {Attempt(0 - 1, "EIO", blocked, FALSE) : blocked \in 0..MaxTimeout}
    \cup {Attempt(res, "EIO", blocked, FALSE) :
            res \in 0..1, blocked \in 0..MaxTimeout}
PollScripts == UNION {[1..n -> PollAnswers] : n \in 1..MaxPolls}

\* Lines 235-254.
pollsetPoll ==
    LET r == IF pollset.arg <= 0
             THEN Restarted(pollset.arg, pollset.script)
             ELSE iepoll(pollset.arg, pollset.script) IN
    /\ r.answered
    /\ Done("pollsetPoll", <<>>, <<pollset.arg, pollset.script>>, r.res, <<>>,
            <<r.calls, r.blocked, IF r.res < 0 THEN "IOException" ELSE "none">>,
            FALSE, heap)

Lib(banner, vsyms, fsyms, fipsmode, missing, num_locks) ==
    [banner |-> banner, vsyms |-> vsyms, fsyms |-> fsyms, fipsmode |-> fipsmode,
     missing |-> missing, num_locks |-> num_locks]

\* The state when the native library has just been loaded: every static is
\* zero, and nothing has called into it.
InitProcess ==
    /\ IdleThreads
    /\ IdleHandles
    /\ crypto_library = NULL
    /\ OSSL_IS_FIPS = FALSE
    /\ fptr = [p \in PointerNames |-> NULL]
    /\ EC_set_public_key = NULL
    /\ OSSL_ECGF2M = FALSE
    /\ lock_cs = NULL
    /\ locking_callback = NULL
    /\ threadid_callback = NULL
    /\ call = [op |-> "none", crypto_library |-> NULL, lock_cs |-> NULL,
               refcnt |-> <<>>]
    /\ events = <<>>
    /\ ret = 0

\* The same, in a process whose launcher is not looked at.
InitGlobals ==
    /\ InitProcess
    /\ IdleLauncher
    /\ IdlePollset

\* One library, at the place jdk.native.openssl.lib names, with any version
\* text and any of the version symbols; the process may hold it open already.
InitVersion ==
    /\ InitGlobals
    /\ platform \in {"linux", "windows"}
    /\ \E banner \in VersionStrings, vsyms \in SUBSET VersionSymbols,
          fipsmode \in {0, 1} :
         fs = (<<UserLibName>> :> Lib(banner, vsyms, FipsSymbols, fipsmode, {}, 1))
    /\ refcnt = [h \in DOMAIN fs |-> 0]

\* The symbols a 1.0.x library lacks, and those a library from 1.1.0 on lacks.
Absent_1_0 == {
    "EVP_MD_CTX_new", "EVP_MD_CTX_reset", "EVP_MD_CTX_free", "EVP_chacha20",
    "EVP_chacha20_poly1305", "RSA_set0_key", "RSA_set0_factors",
    "RSA_set0_crt_params", "EC_POINT_set_affine_coordinates",
    "EC_POINT_get_affine_coordinates", "EVP_PKEY_get_raw_private_key",
    "EVP_PKEY_get_raw_public_key", "EVP_PKEY_new_raw_private_key",
    "EVP_PKEY_new_raw_public_key", "ECDSA_SIG_get0_r", "ECDSA_SIG_get0_s",
    "ECDSA_SIG_set0" }

Absent_1_1 == {
    "CRYPTO_num_locks", "CRYPTO_THREADID_set_numeric",
    "CRYPTO_THREADID_set_callback", "CRYPTO_set_locking_callback",
    "EVP_MD_CTX_create", "EVP_MD_CTX_cleanup", "EVP_MD_CTX_destroy" }

\* What a library may lack: nothing, one symbol, both names of a coordinate
\* routine, or what a release lacks.
MissingSets ==
    {{}} \cup {{s} : s \in FunctionSymbols} \cup {Absent_1_0, Absent_1_1}
    \cup {{"EC_POINT_set_affine_coordinates", "EC_POINT_set_affine_coordinates_GFp"},
          {"EC_POINT_get_affine_coordinates", "EC_POINT_get_affine_coordinates_GFp"}}

\* <<version text, version symbols>> of the libraries of the load model.
LoadKinds ==
    { <<Banner(0, 9, 8, <<"z">>), {"SSLeay_version"}>>,
      <<Banner(1, 0, 2, <<"u">>), {"SSLeay_version"}>>,
      <<Banner(1, 1, 0, <<"l">>), {"OpenSSL_version"}>>,
      <<Banner(1, 1, 1, <<"w">>), {"OpenSSL_version"}>>,
      <<Banner(3, 0, 13, <<>>), {"OpenSSL_version"}>> }

\* One library, where jdk.native.openssl.lib points.  It has any of the
\* versions above and may lack symbols; the process may hold it open already.
InitLoad ==
    /\ InitGlobals
    /\ platform \in {"linux", "windows"}
    /\ \E kind \in LoadKinds, missing \in MissingSets, num_locks \in 1..MaxLocks :
         fs = (<<UserLibName>> :>
                  Lib(kind[1], kind[2], FipsSymbols, 0, missing, num_locks))
    /\ refcnt \in [DOMAIN fs -> {0, 1}]

\* OpenSSL 1.0.2 with every symbol, where jdk.native.openssl.lib points, and
\* no thread inside it yet.
InitLocks ==
    /\ InitGlobals
    /\ platform \in {"linux", "windows"}
    /\ \E num_locks \in 1..MaxLocks :
         fs = (<<UserLibName>> :>
                  Lib(Banner(1, 0, 2, <<"u">>), {"SSLeay_version"}, FipsSymbols,
                      0, {}, num_locks))
    /\ refcnt = [h \in DOMAIN fs |-> 0]

\* The subsets of S with at most k elements.
RECURSIVE SubsetsUpTo(_, _)
SubsetsUpTo(S, k) ==
    IF k = 0 THEN {{}}
    ELSE SubsetsUpTo(S, k - 1)
         \cup {p \cup {x} : p \in SubsetsUpTo(S, k - 1), x \in S}

MaxInstalled == 2

\* The libraries of the search model: complete ones, of two versions the
\* code accepts and one it rejects.
FindKinds ==
    { Lib(Banner(0, 9, 8, <<"z">>), {"SSLeay_version"}, {}, 0, {}, 1),
      Lib(Banner(1, 1, 1, <<"w">>), {"OpenSSL_version"}, {}, 0, {}, 1),
      Lib(Banner(3, 0, 13, <<>>), {"OpenSSL_version"}, {}, 0, {}, 1) }

\* Every file name find_crypto_library may open.
InstallSlots(plat) ==
    {SystemPath(libNames(plat)[i]) : i \in 1..numOfLibs(plat)}
    \cup {BundledPath(plat, JavaHome, libNames(plat)[i]) : i \in 1..numOfLibs(plat)}

\* At most MaxInstalled libraries, under names of the list, in java.home or
\* on the system path.
InitFind ==
    /\ InitGlobals
    /\ platform \in Platforms
    /\ \E S \in SubsetsUpTo(InstallSlots(platform), MaxInstalled) :
         fs \in [S -> FindKinds]
    /\ refcnt = [h \in DOMAIN fs |-> 0]

\* A library with every symbol, where jdk.native.openssl.lib points; nothing
\* loaded yet and no handle handed out.
InitCrypto ==
    /\ InitGlobals
    /\ platform = "linux"
    /\ fs = (<<UserLibName>> :>
                Lib(Banner(3, 0, 13, <<>>), {"OpenSSL_version"}, FipsSymbols,
                    0, {}, 1))
    /\ refcnt = [h \in DOMAIN fs |-> 0]

\* The launcher started with one of the command lines.
LauncherWith(lines) ==
    /\ InitProcess
    /\ platform = "linux"
    /\ fs = (<<UserLibName>> :>
                Lib(Banner(3, 0, 13, <<>>), {"OpenSSL_version"}, FipsSymbols,
                    0, {}, 1))
    /\ refcnt = [h \in DOMAIN fs |-> 0]
    /\ argv \in lines
    /\ proc = Launched
    /\ Unreported
    /\ IdlePollset

InitLauncher == LauncherWith(CommandLines)

\* The launcher started with a command line, or with the checkpoint
\* directory followed by one.
InitRestore ==
    LauncherWith(CommandLines
                 \cup {<<Name_CRaCRestoreFrom \o <<"=", "c">>>> \o line :
                         line \in CommandLines})

\* A process on AIX that has not touched the crypto library, and what its
\* pollset is about to answer.
InitAIX ==
    /\ InitProcess
    /\ IdleLauncher
    /\ platform = "aix"
    /\ fs = (<<UserLibName>> :>
                Lib(Banner(3, 0, 13, <<>>), {"OpenSSL_version"}, FipsSymbols,
                    0, {}, 1))
    /\ refcnt = [h \in DOMAIN fs |-> 0]

InitCtl == InitAIX /\ pollset \in {Scripted(0, script) : script \in CtlScripts}

InitBulk ==
    /\ InitAIX
    /\ pollset \in {Scripted(count, script) :
                        count \in 0..MaxCount, script \in BulkScripts}

InitPoll ==
    /\ InitAIX
    /\ pollset \in {Scripted(timeout, script) :
                        timeout \in (0 - 1)..MaxTimeout, script \in PollScripts}

NextLoader == loadCrypto \/ JNI_OnUnload

\* The launcher and its child in handleCRaCRestore.
NextRestore ==
    \/ handleCRaCRestore
    \/ handleCRaCRestore_child
    \/ criu
    \/ handleCRaCRestore_parent

\* The entries of PollsetArrayWrapper that call the pollset.
NextCtl == pollsetCtl
NextBulk == pollsetBulkCtl
NextPoll == pollsetPoll

\* The getters of the launcher.
NextOptions ==
    \/ Call_getCommandLineOptionValue
    \/ Call_getLogLevel

\* loadCrypto, then the library at work in its threads.
NextLocks ==
    \/ loadCrypto
    \/ pthreads_locking_callback
    \/ win32_locking_callback
    \/ MutexGranted

\* loadCrypto, then the digest entry points.
NextDigest ==
    \/ loadCrypto
    \/ DigestCreateContext
    \/ DigestDestroyContext
    \/ DigestUpdate
    \/ DigestComputeAndReset
    \/ DigestReset

\* loadCrypto, then cipher contexts made, used to decrypt and destroyed.
NextDecrypt ==
    \/ loadCrypto
    \/ CreateContext
    \/ DestroyContext
    \/ GCMDecrypt
    \/ ChaCha20FinalDecrypt

\* loadCrypto, then RSA keys made, used by RSADP and destroyed.
NextRSADP ==
    \/ loadCrypto
    \/ createRSAPrivateCrtKey
    \/ destroyRSAKey
    \/ RSADP

\* Version texts encoded.
NextExtract == extractVersion

\* loadCrypto, then big integers converted.
NextBN ==
    \/ loadCrypto
    \/ convertJavaBItoBN

\* loadCrypto, then every entry point that takes or returns a handle, with
\* at most MaxLive objects alive at a time.
NextHandles ==
  /\
    \/ NextDigest
    \/ NextDecrypt
    \/ CBCInit \/ CBCUpdate \/ CBCFinalEncrypt \/ GCMEncrypt
    \/ ChaCha20Init \/ ChaCha20Update \/ ChaCha20FinalEncrypt
    \/ createRSAPublicKey \/ createRSAPrivateCrtKey \/ destroyRSAKey
    \/ RSAEP \/ RSADP
    \/ ECEncodeGF \/ ECGenerateKeyPair \/ ECDestroyKey
    \/ ECCreatePublicKey \/ ECCreatePrivateKey \/ ECDeriveKey
    \/ ECDSASign \/ ECDSAVerify
  /\ Cardinality(DOMAIN heap') <= MaxLive

vars == <<loaderVars, otherVars>>

Spec == InitLoad /\ [][NextLoader]_vars
SpecFind == InitFind /\ [][NextLoader]_vars
SpecVersion == InitVersion /\ [][NextLoader]_vars
SpecLocks == InitLocks /\ [][NextLocks]_vars
SpecDigest == InitCrypto /\ [][NextDigest]_vars
SpecDecrypt == InitCrypto /\ [][NextDecrypt]_vars
SpecHandles == InitCrypto /\ [][NextHandles]_vars
SpecRSADP == InitCrypto /\ [][NextRSADP]_vars
SpecBN == InitCrypto /\ [][NextBN]_vars
SpecExtract == InitCrypto /\ [][NextExtract]_vars
SpecRestore == InitRestore /\ [][NextRestore]_vars
SpecOptions == InitLauncher /\ [][NextOptions]_vars
SpecCtl == InitCtl /\ [][NextCtl]_vars
SpecBulk == InitBulk /\ [][NextBulk]_vars
SpecPoll == InitPoll /\ [][NextPoll]_vars

(***************************************************************************)
(* The version gate.                                                       *)
(***************************************************************************)
InRange(lo, v, hi) == lo <= v /\ v < hi

\* The library may be accepted: its text parses to a code in [1.0.0, 1.1.0)
\* and it exports SSLeay_version but not OpenSSL_version, or to a code in
\* [1.1.0, 2.0.0) or [3.0.0, 4.0.0) and it exports OpenSSL_version.
Acceptable(lib) ==
    LET code == extractVersionToJlong(lib.banner)
    IN  \/ /\ "SSLeay_version" \in lib.vsyms
           /\ "OpenSSL_version" \notin lib.vsyms
           /\ InRange(OPENSSL_VERSION_1_0_0, code, OPENSSL_VERSION_1_1_0)
        \/ /\ "OpenSSL_version" \in lib.vsyms
           /\ \/ InRange(OPENSSL_VERSION_1_1_0, code, OPENSSL_VERSION_2_0_0)
              \/ InRange(OPENSSL_VERSION_3_0_0, code, OPENSSL_VERSION_4_0_0)

\* The i-th logged call is a version probe, and the call before it unloaded
\* the probed library.
IsProbe(i) == events[i][1] = "version"
ProbeUnloaded(i) == i > 1 /\ events[i - 1] = <<"unload", events[i][2]>>

\* C1: every call of get_crypto_library_version that does not return -1 is on
\* a library that may be accepted, returns the positive code its version text
\* parses to and leaves the library loaded; every call on a library that may
\* not be accepted (no version symbol, text that does not parse, code outside
\* the ranges) unloads the library and returns -1.
C1_VersionGate ==
    \A i \in 1..Len(events) :
        IsProbe(i) =>
            LET lib == fs[events[i][2]]
                r == events[i][3]
            IN  /\ r # -1 =>
                     /\ Acceptable(lib)
                     /\ r = extractVersionToJlong(lib.banner)
                     /\ r > 0
                     /\ ~ProbeUnloaded(i)
                /\ ~Acceptable(lib) => r = -1 /\ ProbeUnloaded(i)

\* A library that exports only SSLeay_version was accepted with a 1.0.x code,
\* and the call returned that code.
C1_Witness ==
    /\ call.op = "loadCrypto"
    /\ \E i \in 1..Len(events) :
          /\ IsProbe(i)
          /\ fs[events[i][2]].vsyms = {"SSLeay_version"}
          /\ InRange(OPENSSL_VERSION_1_0_0, events[i][3], OPENSSL_VERSION_1_1_0)
          /\ ret = events[i][3]

(***************************************************************************)
(* The search.                                                             *)
(***************************************************************************)
IsBundledLoad(e) == e[1] = "load" /\ Len(e[2]) = 3
IsSystemLoad(e) == e[1] = "load" /\ Len(e[2]) = 1 /\ e[2] # <<UserLibName>>

\* The load attempts of the last call, in the order they were made.
BundledTried == SelectSeq(events, IsBundledLoad)
SystemTried == SelectSeq(events, IsSystemLoad)

\* find_crypto_library was called and returned; what it was given and what
\* it returned.
Searched == \E i \in 1..Len(events) : events[i][1] = "found"
SearchHome ==
    events[CHOOSE i \in 1..Len(events) : events[i][1] = "find_crypto_library"][2]
SearchResult == events[CHOOSE i \in 1..Len(events) : events[i][1] = "found"][2]

\* The load event e is of a library that loaded and may be accepted; the
\* code of its version.
CompatibleLoad(e) == e[3] /\ Acceptable(fs[e[2]])
CodeOfLoad(e) == extractVersionToJlong(fs[e[2]].banner)

\* The positions of tried that hold compatible libraries.
CompatibleIn(tried) == {k \in 1..Len(tried) : CompatibleLoad(tried[k])}

\* C2: in the system search the names are tried in list order, none left
\* out; the search goes past a candidate that does not load or is not
\* compatible, and stops right after the first compatible candidate under a
\* version-specific name, or at the end of the list.  The function returns a
\* compatible library that no other examined one beats in version (the
\* earlier one on a tie), and NULL exactly when none examined is compatible.
C2_SystemSearch ==
    (call.op = "loadCrypto" /\ Len(SystemTried) > 0) =>
        LET n == Len(SystemTried)
            compatible == CompatibleIn(SystemTried)
        IN  /\ \A k \in 1..n :
                  SystemTried[k][2] = SystemPath(libNames(platform)[k])
            /\ \A k \in compatible : k > num_of_generic(platform) => k = n
            /\ n < numOfLibs(platform) =>
                  n \in compatible /\ n > num_of_generic(platform)
            /\ Searched
            /\ IF compatible = {} THEN SearchResult = NULL
               ELSE \E k \in compatible :
                      /\ SearchResult = SystemTried[k][2]
                      /\ \A j \in compatible :
                            \/ CodeOfLoad(SystemTried[j]) < CodeOfLoad(SystemTried[k])
                            \/ /\ CodeOfLoad(SystemTried[j]) = CodeOfLoad(SystemTried[k])
                               /\ j >= k

\* A compatible library under a generic name was examined, then a compatible
\* one of greater version under a specific name, and the second was returned.
C2_Witness ==
    /\ call.op = "loadCrypto"
    /\ Searched
    /\ \E j, k \in CompatibleIn(SystemTried) :
          /\ j < k
          /\ j <= num_of_generic(platform)
          /\ CodeOfLoad(SystemTried[j]) < CodeOfLoad(SystemTried[k])
          /\ SearchResult = SystemTried[k][2]

\* The indexes of the list for which malloc gave no memory, and the others up
\* to the index i, in order.
NoMemoryFor ==
    {events[i][3] : i \in {j \in 1..Len(events) :
                              /\ events[j][1] = "malloc"
                              /\ events[j][2] = "libNameWithPath"}}
RECURSIVE NamedUpTo(_)
NamedUpTo(i) ==
    IF i < 0 THEN <<>>
    ELSE IF i \in NoMemoryFor THEN NamedUpTo(i - 1)
    ELSE Append(NamedUpTo(i - 1), i)

\* C3: when java.home is not empty (and the path could be built) the names
\* of the list are tried under <java.home>/lib/ (\bin\ on Windows), in order,
\* before anything is loaded from the system path; the first bundled library
\* that loads with a compatible version is returned, nothing is tried after
\* it, and nothing at all from the system path.  The system path is searched
\* only when no bundled candidate is compatible; with an empty java.home
\* nothing bundled is tried.
C3_BundledFirst ==
    (call.op = "loadCrypto" /\ Searched) =>
        LET b == BundledTried
            compatible == CompatibleIn(BundledTried)
            named == NamedUpTo(numOfLibs(platform) - 1)
            noPath == \E i \in 1..Len(events) : events[i] = <<"malloc", "libPath">>
        IN  /\ SearchHome \in {NULL, ""} => Len(b) = 0 /\ Len(SystemTried) > 0
            /\ (SearchHome \notin {NULL, ""} /\ ~noPath) =>
                  /\ Len(b) <= Len(named)
                  /\ \A k \in 1..Len(b) :
                        b[k][2] = BundledPath(platform, SearchHome,
                                              libNames(platform)[named[k] + 1])
                  /\ \A i, j \in 1..Len(events) :
                        IsBundledLoad(events[i]) /\ IsSystemLoad(events[j]) => i < j
                  /\ compatible # {} =>
                        /\ compatible = {Len(b)}
                        /\ SearchResult = b[Len(b)][2]
                        /\ Len(SystemTried) = 0
                  /\ compatible = {} =>
                        Len(b) = Len(named) /\ Len(SystemTried) > 0
            /\ Len(SystemTried) > 0 => compatible = {}

\* A bundled library was returned while the system path holds a compatible
\* library of greater version, which was never loaded.
C3_Witness ==
    /\ call.op = "loadCrypto"
    /\ Searched
    /\ CompatibleIn(BundledTried) = {Len(BundledTried)}
    /\ SearchResult = BundledTried[Len(BundledTried)][2]
    /\ Len(SystemTried) = 0
    /\ \E h \in DOMAIN fs :
          /\ Len(h) = 1
          /\ Acceptable(fs[h])
          /\ extractVersionToJlong(fs[h].banner)
                > extractVersionToJlong(fs[SearchResult].banner)

(***************************************************************************)
(* The lookups of loadCrypto and the cleanup of JNI_OnUnload.              *)
(***************************************************************************)
\* The lookups of lines 868-1058 ran in the last call; the handle they ran on
\* and the version they ran for.
LookedUp == \E i \in 1..Len(events) : events[i][1] = "lookup"
LookupAt == CHOOSE i \in 1..Len(events) : events[i][1] = "lookup"
LookupHandle == events[LookupAt][2]
LookupVersion == events[LookupAt][3]

\* A pointer the code requires for the version v is NULL.
RequiredUnresolved(v) == \E p \in RequiredFor(v) : fptr[p] = NULL

\* C4: when, after the lookups, a symbol required for the detected version is
\* unresolved, loadCrypto unloads the library as its last step, leaves
\* crypto_library NULL and returns -1.  It returns something else than -1
\* only after the lookups, and then the detected version, with every required
\* symbol resolved and, below 1.1.0, the lock array built by thread_setup and
\* the locking callback registered.
C4_RequiredSymbols ==
    call.op = "loadCrypto" =>
        /\ (LookedUp /\ RequiredUnresolved(LookupVersion)) =>
              /\ ret = -1
              /\ crypto_library = NULL
              /\ Len(events) = LookupAt + 1
              /\ events[Len(events)] = <<"unload", LookupHandle>>
        /\ ret # -1 =>
              /\ LookedUp
              /\ ret = LookupVersion
              /\ ~RequiredUnresolved(LookupVersion)
              /\ crypto_library = LookupHandle
              /\ ret < OPENSSL_VERSION_1_1_0 =>
                    /\ lock_cs # NULL
                    /\ Len(lock_cs) = fs[LookupHandle].num_locks
                    /\ locking_callback = locking_callback_of(platform)

\* A library from 1.1.1 on lacks only a symbol that is required from 1.1.1
\* on: it was unloaded and loadCrypto returned -1.
C4_Witness ==
    /\ call.op = "loadCrypto"
    /\ LookedUp
    /\ LookupVersion >= OPENSSL_VERSION_1_1_1
    /\ \A p \in RequiredAlways \cup Required_1_1_0 : fptr[p] # NULL
    /\ RequiredUnresolved(LookupVersion)
    /\ ret = -1
    /\ crypto_library = NULL

ChaChaPointers == {b[1] : b \in ChaChaBindings}
XDHPointers == {b[1] : b \in XDHBindings \cup ECDSABindings}

\* C5: once loadCrypto has returned a version, the two ChaCha20 pointers are
\* non-NULL exactly when the version is at least 1.1.0 and the XDH and ECDSA
\* pointers are non-NULL exactly when it is at least 1.1.1.
C5_VersionGatedPointers ==
    ret > 0 =>
        /\ \A p \in ChaChaPointers :
              fptr[p] # NULL <=> ret >= OPENSSL_VERSION_1_1_0
        /\ \A p \in XDHPointers :
              fptr[p] # NULL <=> ret >= OPENSSL_VERSION_1_1_1

\* A 1.1.0 library that exports every symbol was loaded: the ChaCha20
\* pointers are set, the XDH and ECDSA pointers are NULL.
C5_Witness ==
    /\ call.op = "loadCrypto"
    /\ InRange(OPENSSL_VERSION_1_1_0, ret, OPENSSL_VERSION_1_1_1)
    /\ fs[crypto_library].missing = {}
    /\ \A p \in ChaChaPointers : fptr[p] # NULL
    /\ \A p \in XDHPointers : fptr[p] = NULL

\* The number of times JNI_OnUnload unloaded the handle h.
Unloads(h) == Cardinality({i \in 1..Len(events) : events[i] = <<"unload", h>>})

\* C7: JNI_OnUnload called with a library loaded unloads it exactly once, as
\* its last step, and leaves crypto_library NULL; if the lock array exists it
\* first clears the locking callback, then destroys every mutex, then frees
\* the array, and leaves lock_cs NULL.  Called with no library loaded it does
\* nothing, which is the case of every call after the first.
C7_Cleanup ==
    call.op = "JNI_OnUnload" =>
        /\ crypto_library = NULL
        /\ call.crypto_library # NULL =>
              /\ Unloads(call.crypto_library) = 1
              /\ events[Len(events)] = <<"unload", call.crypto_library>>
        /\ (call.crypto_library # NULL /\ call.lock_cs # NULL) =>
              /\ events = <<<<"CRYPTO_set_locking_callback", NULL>>>>
                          \o Each("mutex_destroy", Len(call.lock_cs))
                          \o <<<<"OPENSSL_free", "lock_cs">>,
                               <<"unload", call.crypto_library>>>>
              /\ lock_cs = NULL
              /\ locking_callback = NULL
        /\ (call.crypto_library # NULL /\ call.lock_cs = NULL) =>
              events = <<<<"unload", call.crypto_library>>>>
        /\ call.crypto_library = NULL =>
              /\ events = <<>>
              /\ refcnt = call.refcnt
              /\ lock_cs = call.lock_cs

\* JNI_OnUnload was called with a library loaded and an array of more than
\* one lock.
C7_Witness ==
    /\ call.op = "JNI_OnUnload"
    /\ call.crypto_library # NULL
    /\ call.lock_cs # NULL
    /\ Len(call.lock_cs) > 1
    /\ lock_cs = NULL

(***************************************************************************)
(* The locking callback.                                                   *)
(***************************************************************************)
\* The threads between acquire and release of slot k.
Holders(k) == {t \in Threads : k \in held[t]}

\* C6: while the locking callback is registered lock_cs has one mutex for
\* each lock slot, and the mutex of slot k is owned by the thread that is
\* between acquire and release of k and by no other: the callback called with
\* CRYPTO_LOCK locks that mutex and called without it unlocks it.  So at most
\* one thread at a time is between acquire and release of a slot, and a
\* thread that waits for slot k is let in as soon as no thread holds k,
\* whatever other slots are held.
C6_LockingCallback ==
    locking_callback # NULL =>
        /\ Len(lock_cs) = fs[crypto_library].num_locks
        /\ \A k \in LockSlots :
              /\ Cardinality(Holders(k)) <= 1
              /\ \A t \in Threads : k \in held[t] <=> lock_cs[k + 1] = t
        /\ \A t \in Threads :
              (waiting[t] # NoSlot /\ Holders(waiting[t]) = {})
                  => ENABLED mutex_lock(t)

\* Two threads hold two different slots at the same time, and a third waits
\* for one of them.
C6_Witness ==
    /\ locking_callback # NULL
    /\ \E t, u, w \in Threads :
         /\ t # u
         /\ 0 \in held[t]
         /\ 1 \in held[u]
         /\ waiting[w] = 0

(***************************************************************************)
(* Digest handles.                                                         *)
(***************************************************************************)
\* The last step was a call of op that returned r on the live handle c.
Returned(op, c, r) ==
    /\ jni'.entry = op
    /\ jni'.h = <<c>>
    /\ jni'.ret = r

\* A call of DigestComputeAndReset returned a size, or one of DigestReset
\* returned 0.
ResetSucceeded(c) ==
    \/ jni'.entry = "DigestComputeAndReset" /\ jni'.h = <<c>> /\ jni'.ret >= 0
    \/ Returned("DigestReset", c, 0)

\* The step was a call of DigestUpdate, DigestComputeAndReset or DigestReset.
DigestStep ==
    /\ jni'.entry \in {"DigestUpdate", "DigestComputeAndReset", "DigestReset"}
    /\ <<heap, jni>>' # <<heap, jni>>

\* After a successful reset the working context is the initialized state
\* captured at creation, and the digest DigestComputeAndReset writes is the
\* digest of what the working context had absorbed followed by the message
\* of the call.
ResetRestores ==
    \A c \in Handles("digest") :
        /\ ResetSucceeded(c) =>
              heap'[c].ctx = EVP_DigestInit_ex(heap[c].digestAlg)
        /\ (jni'.entry = "DigestComputeAndReset" /\ jni'.h = <<c>> /\ jni'.ret >= 0) =>
              /\ jni'.out[1] = "digest"
              /\ jni'.out[2] = heap[c].ctx[1]
              /\ jni'.out[3] = heap[c].ctx[2] \o
                     (IF jni'.in[1] THEN <<>> ELSE jni'.in[2])

\* The cached copy of the handle c is what it was.
CachedKept(c) ==
    heap'[c].cachedInitializedDigestContext = heap[c].cachedInitializedDigestContext

\* A reset whose copy failed: the call returned -1 and the handle has lost
\* both its contexts.
ResetFailed(c) ==
    /\ jni'.entry \in {"DigestComputeAndReset", "DigestReset"}
    /\ jni'.h = <<c>>
    /\ jni'.ret = 0 - 1
    /\ heap'[c].ctx = NULL_CTX
    /\ heap'[c].cachedInitializedDigestContext = NULL_CTX

\* C8 as stated: a successful reset restores the initialized state, and
\* DigestUpdate, DigestComputeAndReset and DigestReset never modify the
\* cached copy.
C8_CachedNeverModified ==
    [][DigestStep =>
          /\ ResetRestores
          /\ \A c \in Handles("digest") : CachedKept(c)]_vars

\* C8: after DigestComputeAndReset returns a non-negative size, or
\* DigestReset returns 0, the working context is the initialized state
\* captured at creation, so the next digest depends only on the data
\* supplied after that point.  DigestUpdate never modifies the cached copy;
\* DigestComputeAndReset and DigestReset leave it as it is unless copying it
\* over the working context fails: then they free it together with the
\* working context, clear both fields and return -1.
C8_DigestReset ==
    [][DigestStep =>
          /\ ResetRestores
          /\ \A c \in Handles("digest") :
                \/ CachedKept(c)
                \/ ResetFailed(c)]_vars

\* DigestComputeAndReset has returned the size of a digest of data given
\* after the handle was made as a copy, and the working context is back at
\* the initialized state.
C8_Witness ==
    /\ jni.entry = "DigestComputeAndReset"
    /\ jni.ret > 0
    /\ jni.out[3] # <<>>
    /\ heap[jni.h[1]].ctx = EVP_DigestInit_ex(heap[jni.h[1]].digestAlg)
    /\ heap[jni.h[1]].cachedInitializedDigestContext = heap[jni.h[1]].ctx

(***************************************************************************)
(* Null handles.                                                           *)
(***************************************************************************)
\* The last call was given a null handle.
NullHandleGiven == \E i \in DOMAIN jni.h : jni.h[i] = 0

\* C9: every entry point that receives a native handle (digest context,
\* cipher context, RSA key, EC key) tests it against null before it
\* dereferences it or passes it to the crypto library: a call given a null
\* handle gives no handle to the library, cannot fault, and returns its
\* error value -1 (the destroy entry points, which return nothing or
\* always 0, only return).
C9_NullChecks ==
    NullHandleGiven =>
        /\ jni.used = <<>>
        /\ ~jni.fault
        /\ jni.entry \notin {"DigestDestroyContext", "DestroyContext",
                             "destroyRSAKey", "ECDestroyKey"}
               => jni.ret = 0 - 1

(***************************************************************************)
(* The two error values of decryption.                                     *)
(***************************************************************************)
\* The steps GCMDecrypt takes before EVP_DecryptFinal on a context that is
\* not null, for the flags and lengths it is given.
GCMDecryptEarlier(newKeyLen, newIVLen, aadLen, inLen, tagLen) ==
    (IF newKeyLen THEN {"CipherInit_ex"} ELSE {})
    \cup (IF newIVLen THEN {"SET_IVLEN"} ELSE {})
    \cup {"key", "iv", "DecryptInit_ex", "output", "SET_TAG"}
    \cup (IF aadLen > 0 THEN {"aad", "DecryptUpdate aad"} ELSE {})
    \cup (IF inLen > 0 THEN {"input"} ELSE {})
    \cup (IF inLen - tagLen > 0 THEN {"DecryptUpdate"} ELSE {})

\* The steps ChaCha20FinalDecrypt takes before EVP_CipherFinal_ex.
ChaChaDecryptEarlier ==
    {"input", "output", "aad", "DecryptUpdate aad", "DecryptUpdate", "SET_TAG"}

\* The last call was a decryption: its lengths, the step that failed in it
\* and the name of its final step.
Decrypted == jni.entry \in {"GCMDecrypt", "ChaCha20FinalDecrypt"}
DecryptedLengths == IF jni.entry = "GCMDecrypt" THEN jni.in[3] ELSE jni.in[1]
DecryptedFailing == IF jni.entry = "GCMDecrypt" THEN jni.in[4] ELSE jni.in[2]
DecryptedFinal ==
    IF jni.entry = "GCMDecrypt" THEN "DecryptFinal" ELSE "CipherFinal_ex"

\* A step before the final one failed in the last call, the null check
\* included.
EarlierFailed ==
    \/ jni.h[1] = 0
    \/ DecryptedFailing \in
          (IF jni.entry = "GCMDecrypt"
           THEN GCMDecryptEarlier(jni.in[1], jni.in[2], DecryptedLengths[1],
                                  DecryptedLengths[2], DecryptedLengths[3])
           ELSE ChaChaDecryptEarlier)

TagRejected == ~EarlierFailed /\ DecryptedFailing = DecryptedFinal

\* C10: GCMDecrypt and ChaCha20FinalDecrypt return -2 exactly when the tag
\* verification of the final step fails after every earlier step (null
\* check, pinning of the arrays, init, additional data, update, set-tag)
\* succeeded, -1 when an earlier step fails, and otherwise the length of
\* the plaintext, which is not negative.
C10_DecryptSentinels ==
    Decrypted =>
        /\ jni.ret = 0 - 2 <=> TagRejected
        /\ EarlierFailed => jni.ret = 0 - 1
        /\ ~EarlierFailed /\ ~TagRejected
               => /\ jni.ret = DecryptedLengths[2] - DecryptedLengths[3]
                  /\ jni.ret >= 0

\* GCMDecrypt has rejected the tag of an input with additional data and a
\* byte of ciphertext, on a live context.
C10_Witness ==
    /\ jni.entry = "GCMDecrypt"
    /\ jni.h[1] \in DOMAIN heap
    /\ jni.in[3] = <<1, 2, 1>>
    /\ jni.ret = 0 - 2

(***************************************************************************)
(* The verification of RSADP.                                              *)
(***************************************************************************)
\* The last call was RSADP on a live key with both arrays pinned: its
\* arguments, what RSA_private_encrypt returned, and what
\* RSA_public_decrypt has written when it was called and succeeded.
RSADPReturned ==
    /\ jni.entry = "RSADP"
    /\ jni.h[1] # 0
    /\ jni.in[3] \notin {"pin k", "pin m"}
RSADP_k == jni.in[1]
RSADP_verify_arg == jni.in[2]
RSADP_msg_len ==
    IF jni.in[3] = "RSA_private_encrypt" THEN 0 - 1
    ELSE RSA_private_encrypt(Len(RSADP_k))
RSADP_decrypted == jni.in[4]

\* m, run through the public-key operation, is the original k: behind a
\* leading zero byte when verify is kLen + 1.
ComparisonSucceeds ==
    IF RSADP_verify_arg = Len(RSADP_k) + 1
    THEN RSADP_decrypted = <<0>> \o RSADP_k
    ELSE RSADP_decrypted = RSADP_k

\* C11: with verify = -1 RSADP returns the result of the private-key
\* operation unchanged; otherwise, when that operation succeeded, it
\* returns -2 if verify is neither kLen nor kLen + 1, -1 if the buffer
\* allocation or the public-key operation fails, -2 if m run through the
\* public-key operation is not the original k (a non-zero leading byte
\* included when verify is kLen + 1), and the length of the private-key
\* operation when the comparison succeeds.
C11_RSADPVerify ==
    RSADPReturned =>
        /\ ~jni.fault
        /\ RSADP_verify_arg = 0 - 1 => jni.ret = RSADP_msg_len
        /\ RSADP_verify_arg # 0 - 1 /\ RSADP_msg_len # 0 - 1 =>
             jni.ret =
                 IF RSADP_verify_arg \notin {Len(RSADP_k), Len(RSADP_k) + 1}
                 THEN 0 - 2
                 ELSE IF jni.in[3] \in {"malloc", "RSA_public_decrypt"}
                 THEN 0 - 1
                 ELSE IF ComparisonSucceeds THEN RSADP_msg_len
                 ELSE 0 - 2

(***************************************************************************)
(* The conversion of big integers.                                         *)
(***************************************************************************)
\* The bytes s read as an unsigned big-endian number.
RECURSIVE Unsigned(_)
Unsigned(s) ==
    IF s = <<>> THEN 0
    ELSE s[1] * Pow2(8 * (Len(s) - 1)) + Unsigned(Tail(s))

Converted == jni.entry = "convertJavaBItoBN" /\ jni.out[1] # NULL_BN
ConvertedBytes == jni.in[1]

\* C12: convertJavaBItoBN turns the two's-complement big-endian bytes of a
\* big integer into the BIGNUM of the same value: when the top bit of the
\* first byte is clear the magnitude is the bytes read as an unsigned
\* number and the sign is not negative; when it is set the magnitude is
\* 2^(8*len) minus that number and the sign is negative.
C12_TwosComplement ==
    Converted =>
        IF ConvertedBytes[1] < 128
        THEN jni.out[1] = <<0, Unsigned(ConvertedBytes)>>
        ELSE jni.out[1] = <<1, Pow2(8 * Len(ConvertedBytes))
                                  - Unsigned(ConvertedBytes)>>

\* A negative number of two bytes whose low byte is zero has been
\* converted: the carry has gone into the first byte.
C12_Witness ==
    /\ Converted
    /\ ConvertedBytes = <<255, 0>>
    /\ jni.out[1] = <<1, 256>>

(***************************************************************************)
(* The encoding of version texts.                                          *)
(***************************************************************************)
Extracted == jni.entry = "extractVersionToJlong"
ExtractedText == jni.in[1]

RECURSIVE Spaces(_)
Spaces(n) == IF n = 0 THEN <<>> ELSE <<" ">> \o Spaces(n - 1)

\* The text "OpenSSL M.m.f", with a, b and c spaces before the numbers.
Numbered(a, b, c, M, m, f) ==
    BannerChars \o Spaces(a) \o DecChars(M) \o <<".">> \o Spaces(b)
        \o DecChars(m) \o <<".">> \o Spaces(c) \o DecChars(f)

\* t begins with the text p, and the fix number ends where p ends.
Begins(t, p) ==
    /\ Len(t) >= Len(p)
    /\ SubSeq(t, 1, Len(p)) = p
    /\ Len(t) > Len(p) => t[Len(p) + 1] \notin {"0", "1", "2", "3", "4", "5",
                                                 "6", "7", "8", "9"}

\* The numbers the version texts of the model are made of.
Majors == 0..MaxMajor
Minors == {0, 1, 2, 256}
Fixes == {0, 1, 2, 3, 13}
Gaps == {0, 1, 2}

\* 1..26 for a letter in either case right after the text p, 0 otherwise.
PatchNumber(t, p) ==
    IF Len(t) > Len(p)
       /\ \E i \in 1..26 : t[Len(p) + 1] \in {LowerChars[i], UpperChars[i]}
    THEN CHOOSE i \in 1..26 : t[Len(p) + 1] \in {LowerChars[i], UpperChars[i]}
    ELSE 0

\* (M << 28) | (m << 20) | (f << 12) | patch
Code(M, m, f, patch) ==
    BitOr(BitOr(BitOr(M * 268435456, m * 1048576), f * 4096), patch)

\* C13: extractVersionToJlong encodes "OpenSSL M.m.f" with an optional patch
\* letter as (M << 28) | (m << 20) | (f << 12) | patch, where patch is 1..26
\* for a letter a..z in either case right after the fix number and 0
\* otherwise, so that 1.2.3d gives 0x10203004; it returns -1 when fewer than
\* three numbers can be parsed.
C13_VersionCode ==
    Extracted =>
        /\ \A a \in Gaps, b \in Gaps, c \in Gaps, M \in Majors, m \in Minors,
              f \in Fixes :
             Begins(ExtractedText, Numbered(a, b, c, M, m, f)) =>
                 jni.ret = Code(M, m, f,
                     PatchNumber(ExtractedText, Numbered(a, b, c, M, m, f)))
        /\ (\A a \in Gaps, b \in Gaps, c \in Gaps, M \in Majors, m \in Minors,
               f \in Fixes : ~Begins(ExtractedText, Numbered(a, b, c, M, m, f)))
             => jni.ret = 0 - 1
        /\ ExtractedText = Banner(1, 2, 3, <<"d">>) => jni.ret = 270544900

\* The text of version 1.2.3d has been encoded, as 0x10203004.
C13_Witness ==
    /\ Extracted
    /\ ExtractedText = <<"O", "p", "e", "n", "S", "S", "L", " ", "1", ".", "2",
                         ".", "3", "d">>
    /\ jni.ret = 270544900

(***************************************************************************)
(* The launcher.                                                           *)
(***************************************************************************)
\* The argument arg is the option name, alone or followed by = and a value.
IsOption(arg, name) ==
    \/ arg = name
    \/ /\ Len(arg) > Len(name)
       /\ SubSeq(arg, 1, Len(name) + 1) = name \o <<"=">>

\* The arguments of the command line that are the option name.
Given(name) == {i \in 1..Len(argv) : IsOption(argv[i], name)}
LastGiven(name) == argv[CHOOSE i \in Given(name) : \A j \in Given(name) : j <= i]

\* The text after the = of the argument arg.
ValueOf(arg, name) == SubSeq(arg, Len(name) + 2, Len(arg))

\* C14: handleCRaCRestore returns to its caller if and only if the option
\* -XX:CRaCRestoreFrom is absent from the command line, and then no process
\* has been forked and none has exited; when the option is present neither
\* the launcher nor a forked child ever returns from it.
C14_ReturnsIffAbsent ==
    /\ proc["launcher"].pc = "returned" =>
           /\ Given(Name_CRaCRestoreFrom) = {}
           /\ proc["child"].pc = "none"
    /\ Given(Name_CRaCRestoreFrom) = {} /\ proc["launcher"].pc # "called" =>
           proc["launcher"].pc = "returned"
    /\ proc["child"].pc \notin {"called", "returned"}
    /\ Given(Name_CRaCRestoreFrom) # {} =>
           /\ proc["launcher"].pc \in {"called", "waitpid", "exited"}
           /\ proc["child"].pc \in {"none", "forked", "criu", "exited", "signaled"}

\* The option is present, criu has restored and exited, and the launcher
\* has exited after it.
C14_Witness ==
    /\ Given(Name_CRaCRestoreFrom) # {}
    /\ proc["child"] = At("exited", 0)
    /\ proc["launcher"] = At("exited", 0)

Got == jni.entry = "getCommandLineOptionValue"

\* C15: getCommandLineOptionValue uses the last argument that is exactly
\* optionName or optionName followed by =, and ignores an argument that
\* begins with optionName followed by another character.  If there is such
\* an argument error is 0 and the result is the text after =, or NULL when
\* there is no = or no text after it; if there is none error is -1 and the
\* result is NULL.
C15_LastOption ==
    Got =>
        IF Given(jni.in[1]) = {}
        THEN jni.ret = 0 - 1 /\ jni.out[1]
        ELSE /\ jni.ret = 0
             /\ IF ValueOf(LastGiven(jni.in[1]), jni.in[1]) = <<>>
                THEN jni.out[1]
                ELSE /\ ~jni.out[1]
                     /\ jni.out[2] = ValueOf(LastGiven(jni.in[1]), jni.in[1])

\* The log level is given twice, and the value found is the one given last.
C15_Witness ==
    /\ Got
    /\ argv = <<Name_logLevel \o <<"=", "3">>, Name_logLevel \o <<"=", "5">>>>
    /\ jni.in[1] = Name_logLevel
    /\ jni.out = <<FALSE, <<"5">>>>

\* The string s is made of decimal digits and denotes a number from 0 to 4.
DenotesLevel(s) ==
    /\ s # <<>>
    /\ \A i \in 1..(Len(s) - 1) : s[i] = "0"
    /\ s[Len(s)] \in {"0", "1", "2", "3", "4"}

\* The option of the log level is absent or carries no value.
NoLevelGiven ==
    \/ Given(Name_logLevel) = {}
    \/ ValueOf(LastGiven(Name_logLevel), Name_logLevel) = <<>>

\* C16: getLogLevel returns v without setting error to -2 if and only if the
\* value of -Dopenj9.internal.criu.logLevel is a string of decimal digits
\* that denotes v, with 0 <= v <= 4; it returns 2 without error when the
\* option is absent or carries no value; for every other value it sets
\* error to -2.
C16_LogLevel ==
    jni.entry = "getLogLevel" =>
        IF NoLevelGiven
        THEN jni.ret = 2 /\ jni.out[1] # 0 - 2
        ELSE IF DenotesLevel(ValueOf(LastGiven(Name_logLevel), Name_logLevel))
        THEN /\ jni.out[1] # 0 - 2
             /\ jni.ret = DigitVal(LastGiven(Name_logLevel)
                                       [Len(LastGiven(Name_logLevel))])
        ELSE jni.out[1] = 0 - 2

(***************************************************************************)
(* The pollset calls.                                                      *)
(***************************************************************************)
\* A call of the pollset failed because a signal arrived.
Interrupted(answer) == answer.res < 0 /\ answer.errno = "EINTR"

\* The errors pollsetCtl does not report.
Harmless == {"EBADF", "ENOENT", "EINVAL", "EPERM"}

PollsetCtlReturned == jni.entry = "pollsetCtl"
CtlCalls == jni.out[1]

\* C17: pollsetCtl calls pollset_ctl again after each call that failed with
\* EINTR and stops at the first call that did not; it then throws an
\* IOException if and only if that last call failed with an errno other than
\* EBADF, ENOENT, EINVAL and EPERM.
C17_CtlErrors ==
    PollsetCtlReturned =>
        /\ CtlCalls \in 1..Len(jni.in)
        /\ \A i \in 1..(CtlCalls - 1) : Interrupted(jni.in[i])
        /\ ~Interrupted(jni.in[CtlCalls])
        /\ jni.out[2] = "IOException"
            <=> /\ jni.in[CtlCalls].res < 0
                /\ jni.in[CtlCalls].errno \notin Harmless

\* pollsetCtl was interrupted, called again, failed on a descriptor that is
\* closed and said nothing.
C17_Witness ==
    /\ PollsetCtlReturned
    /\ CtlCalls = 2
    /\ jni.in[2] = Answer(0 - 1, "EBADF")
    /\ jni.out[2] = "none"

BulkReturned == jni.entry = "pollsetBulkCtl"
BulkCount == jni.in[1]
BulkScript == jni.in[2]
BulkCalls == jni.out[1]

\* The elements of the array a call was given.
Elements(c) == c.first..(c.first + c.count - 1)

\* The element a call reported.
Problem(c, answer) ==
    c.first + (IF answer.res = 0 - 1 THEN 0 ELSE answer.res)

\* The elements of a call behind the one it reported.
Following(c, answer) == {e \in Elements(c) : e > Problem(c, answer)}

\* C18: pollsetBulkCtl first gives pollset_ctl all the elements; after a call
\* that returned 0 it makes no other; after a call that failed with EINTR it
\* gives the same elements again; after a call that reported a problem
\* element (by its index, or by -1 for the first) it gives exactly the
\* elements behind that one, and makes no call when there are none.
C18_BulkResubmits ==
    BulkReturned =>
        /\ BulkCalls = <<>> <=> BulkCount = 0
        /\ BulkCalls # <<>> => Elements(BulkCalls[1]) = 0..(BulkCount - 1)
        /\ \A i \in 1..Len(BulkCalls) :
            /\ BulkCalls[i].aligned
            /\ IF BulkScript[i].res = 0
               THEN i = Len(BulkCalls)
               ELSE IF Interrupted(BulkScript[i])
               THEN i < Len(BulkCalls) /\ BulkCalls[i + 1] = BulkCalls[i]
               ELSE IF Following(BulkCalls[i], BulkScript[i]) = {}
               THEN i = Len(BulkCalls)
               ELSE /\ i < Len(BulkCalls)
                    /\ Elements(BulkCalls[i + 1])
                       = Following(BulkCalls[i], BulkScript[i])

\* pollsetBulkCtl was told of a problem in the second of three elements, was
\* interrupted, and gave the third element twice.
C18_Witness ==
    /\ BulkReturned
    /\ BulkCount = 3
    /\ Len(BulkCalls) = 3
    /\ BulkScript[1].res = 1
    /\ Interrupted(BulkScript[2])
    /\ Elements(BulkCalls[3]) = {2}

PollReturned == jni.entry = "pollsetPoll"
PollTimeout == jni.in[1]
PollScript == jni.in[2]
PollCalls == jni.out[1]
PollBlocked == jni.out[2]

\* C19: pollsetPoll with a timeout above 0 calls pollset_poll again only
\* after a call that failed with EINTR while less than the timeout has
\* passed since the first call; it returns 0 when a call failed with EINTR
\* and the timeout has passed or the clock was set back; and the time it
\* blocked in all its calls together is no more than the timeout.
C19_BoundedWait ==
    (PollReturned /\ PollTimeout > 0) =>
        /\ \A i \in 1..(PollCalls - 1) :
            /\ Interrupted(PollScript[i])
            /\ ~PollScript[i].back
            /\ BlockedIn(PollScript, i) < PollTimeout
        /\ Interrupted(PollScript[PollCalls]) =>
            /\ jni.ret = 0
            /\ \/ PollScript[PollCalls].back
               \/ BlockedIn(PollScript, PollCalls) >= PollTimeout
        /\ PollBlocked <= PollTimeout

(***************************************************************************)
(* thread_setup.                                                           *)
(***************************************************************************)
\* loadCrypto called thread_setup: it asked for the lock array.
Asked(i) == events[i][1] = "OPENSSL_malloc"
SetupCalled == call.op = "loadCrypto" /\ \E i \in 1..Len(events) : Asked(i)

\* What the call did from there on.
SetupEvents ==
    SubSeq(events, CHOOSE i \in 1..Len(events) : Asked(i), Len(events))

\* The library loadCrypto had loaded when it called thread_setup.
SetupLibrary ==
    IF crypto_library # NULL THEN crypto_library ELSE events[Len(events)][2]

\* What a thread_setup that succeeds does on n locks.
SetupDone(n) ==
    <<<<"OPENSSL_malloc", TRUE>>>> \o Each("mutex_init", n)
    \o (IF platform = "windows"
        THEN <<>>
        ELSE <<<<"CRYPTO_THREADID_set_callback", "pthreads_thread_id">>>>)
    \o <<<<"CRYPTO_set_locking_callback", locking_callback_of(platform)>>>>

\* What loadCrypto does when thread_setup got the array and could not create
\* mutex i.
SetupUndone(i) ==
    <<<<"OPENSSL_malloc", TRUE>>>> \o Each("mutex_init", i)
    \o Each("mutex_destroy", i)
    \o <<<<"OPENSSL_free", "lock_cs">>, <<"unload", SetupLibrary>>>>

\* thread_setup got the array and created every mutex.
SetupSucceeded ==
    /\ SetupEvents[1][2]
    /\ Cardinality({i \in 1..Len(SetupEvents) :
                        SetupEvents[i][1] = "mutex_init"})
       = fs[SetupLibrary].num_locks

\* C20: when thread_setup gets the array and creates every mutex, loadCrypto
\* leaves lock_cs holding one created mutex for each of the CRYPTO_num_locks
\* locks and the locking callback registered after them; when it gets no
\* array, or cannot create mutex i, loadCrypto returns -1 with the library
\* unloaded, crypto_library and lock_cs NULL and no callback registered,
\* thread_setup having destroyed exactly the mutexes 0..i-1 it created and
\* freed the array.
C20_AllOrNothing ==
    SetupCalled =>
        IF SetupSucceeded
        THEN /\ crypto_library # NULL
             /\ SetupEvents = SetupDone(fs[crypto_library].num_locks)
             /\ lock_cs = Mutexes(fs[crypto_library].num_locks)
             /\ locking_callback = locking_callback_of(platform)
        ELSE /\ ret = 0 - 1
             /\ crypto_library = NULL
             /\ lock_cs = NULL
             /\ locking_callback = NULL
             /\ events[Len(events)][1] = "unload"
             /\ \/ SetupEvents = <<<<"OPENSSL_malloc", FALSE>>,
                                    <<"unload", SetupLibrary>>>>
                \/ \E i \in 0..(fs[SetupLibrary].num_locks - 1) :
                        SetupEvents = SetupUndone(i)

\* thread_setup could not create the second mutex: loadCrypto returned -1
\* after the first was destroyed.
C20_Witness ==
    /\ SetupCalled
    /\ ret = 0 - 1
    /\ Len(SetupEvents) > 2
    /\ SetupEvents[3] = <<"mutex_destroy", 0>>

(***************************************************************************)
(* The child and the parent of handleCRaCRestore.                          *)
(***************************************************************************)
\* The option name is on the command line, and the last time with a value.
HasValue(name) ==
    /\ Given(name) # {}
    /\ ValueOf(LastGiven(name), name) # <<>>

\* The log level given is not a number from 0 to 4.
BadLevel ==
    /\ ~NoLevelGiven
    /\ ~DenotesLevel(ValueOf(LastGiven(Name_logLevel), Name_logLevel))

\* The option of the unprivileged mode is given with a value.
BadMode == HasValue(Name_unprivilegedMode)

\* The option of the log file is given without a value.
BadFile == Given(Name_logFile) # {} /\ ~HasValue(Name_logFile)

\* The child has run to its exit or to execvp.
ChildRan == proc["child"].pc \in {"criu", "exited", "signaled"}

\* The message of handleCRaCRestore about the option the child found wrong.
Blamed ==
    {reported[i] : i \in 1..Len(reported)}
    \cap {"Failed to get the CRIU log level.",
          "Failed to get the CRIU unprivileged mode.",
          "Failed to get the CRIU log file."}

\* The level, the mode and the log file criu is to be started with.
LevelWanted ==
    IF NoLevelGiven THEN 2
    ELSE DigitVal(LastGiven(Name_logLevel)[Len(LastGiven(Name_logLevel))])
ModeWanted == Given(Name_unprivilegedMode) # {}
FileWanted ==
    IF Given(Name_logFile) = {} THEN <<>>
    ELSE <<Word_log_file \o ValueOf(LastGiven(Name_logFile), Name_logFile)>>

\* C21: the child of handleCRaCRestore starts criu only when the log level
\* is a number from 0 to 4 or not given, the unprivileged mode is given
\* without a value or not given, and the log file is given with a value or
\* not given; criu is then started with that level (2 when none is given),
\* with --unprivileged exactly when the mode is given, and with the log file
\* exactly when one is given.  Otherwise the child exits with EXIT_FAILURE
\* without starting criu, and what it reports is the first of log level,
\* unprivileged mode and log file that is wrong.
C21_ValidatedBeforeExec ==
    /\ criuArgs # <<>> =>
        /\ ~BadLevel /\ ~BadMode /\ ~BadFile
        /\ criuArgs =
               <<Word_criu, Word_restore, Word_D,
                 ValueOf(LastGiven(Name_CRaCRestoreFrom), Name_CRaCRestoreFrom),
                 Word_v \o <<DigitChars[LevelWanted + 1]>>, Word_shell_job>>
               \o (IF ModeWanted THEN <<Word_unprivileged>> ELSE <<>>)
               \o FileWanted
    /\ (ChildRan /\ (BadLevel \/ BadMode \/ BadFile)) =>
        /\ criuArgs = <<>>
        /\ proc["child"] = Exited(EXIT_FAILURE)
        /\ Blamed = {IF BadLevel THEN "Failed to get the CRIU log level."
                     ELSE IF BadMode
                     THEN "Failed to get the CRIU unprivileged mode."
                     ELSE "Failed to get the CRIU log file."}

\* The option is on the command line.
RestoreAsked == Given(Name_CRaCRestoreFrom) # {}

\* The launcher has reported a restore as completed.
Completed ==
    \E i \in 1..Len(reported) :
        reported[i] = "Completed restore with -XX:CRaCRestoreFrom=PATH."

\* C22: with -XX:CRaCRestoreFrom on the command line, the launcher that has
\* exited reported a completed restore and exited with EXIT_SUCCESS when a
\* child was forked and has exited with status 0; in every other case it
\* reported none and exited with EXIT_FAILURE.
C22_ParentExitStatus ==
    (RestoreAsked /\ proc["launcher"].pc = "exited") =>
        IF proc["child"] = At("exited", 0)
        THEN Completed /\ proc["launcher"].status = EXIT_SUCCESS
        ELSE ~Completed /\ proc["launcher"].status = EXIT_FAILURE

====
